---- MODULE Spec2Model ----
(***************************************************************************)
(* Models of the live-transcription programs of the repository:            *)
(*   - live_transcribe_testing/live_transcribe_3.py: two RecognitionWorker *)
(*     threads, asynchronous result callbacks and the shared conversation  *)
(*     log that is rewritten to the transcript file (SpecLog);             *)
(*   - live_transcribe_testing/dual_live_transcribe.py: the audio tap with *)
(*     its one-shot channel calibration, routing and silence watchdog      *)
(*     (SpecTap);                                                          *)
(*   - live_transcribe.py: the feed thread over a blocking capture stream  *)
(*     and the shutdown of that stream (SpecFeed).                         *)
(* Every specification leaves the other programs' variables unchanged.     *)
(***************************************************************************)
EXTENDS Integers, Sequences, FiniteSets, TLC

\* ------------------------------------------------------------------------
\* Bounds of the model
\* ------------------------------------------------------------------------
\* Largest number of entries the conversation log is allowed to reach.
MaxLog == 2
\* time.time() readings are drawn from 0..MaxTime (in clock ticks).
MaxTime == 2
\* Clock ticks per second: strftime('%H:%M:%S') drops the sub-second part.
TicksPerSec == 2
\* Capture devices have 1..MaxChannels input channels.
MaxChannels == 4
\* Largest number of buffers the feed thread appends to its request.
MaxFed == 3
\* The clock of the calibrated program runs from 0 to MaxClock ticks, and up
\* to MaxWatchClock ticks where only the calibrated tap is followed.
MaxClock == 4
MaxWatchClock == 13
\* Largest number of blocks accumulated before calibration finalizes.
MaxBlocks == 2
\* PyAudio enumerates at most MaxDevices devices.
MaxDevices == 2

None == "None"

Max(a, b) == IF a >= b THEN a ELSE b

\* ------------------------------------------------------------------------
\* live_transcribe_3.py
\* ------------------------------------------------------------------------
\* DEVICES: the labels of the two workers, in list order.
DEVICES == <<"Person 1", "Person 2">>
Speakers == {DEVICES[i] : i \in 1..Len(DEVICES)}
\* Every caller of flush(): the result callbacks and main.
Callers == Speakers \cup {"main"}
\* res.bestTranscription().formattedString(): equal-length texts.
Texts == {"aa", "bb"}
TimeValues == 0..MaxTime

VARIABLES
    conversation,       \* list of (ts, who, txt), live_transcribe_3.py:35
    conversation_lock,  \* None or the label of the callback holding it
    transcript,         \* content of TRANSCRIPT_FILE: a sequence of lines
    cbpc,               \* position of each speaker's _result callback
    cbtxt,              \* txt local of the running callback
    fpc,                \* position of each caller inside flush()
    fbuf,               \* each caller's file object buffer inside flush()
    mainpc,             \* position of main()
    widx,               \* loop index of "for w in workers" at shutdown
    wpc,                \* position of each RecognitionWorker.run
    stop_evt,           \* RecognitionWorker.stop_evt
    stream,             \* each worker's capture stream
    task,               \* recognition task started for the worker's request
    audio,              \* the PyAudio handle: "alive" or "terminated"
    inflight,           \* callbacks that had arrived when shutdown began
    prev_out,           \* <<file content left by the flush() before this one>>
    cb_done,            \* number of callbacks that appended and returned
    cb_bad              \* a callback with an error or no result has come

VARIABLES
    lt_main,    \* position of the script's main thread
    ch_in,      \* channel count of the device found (None before that)
    lt_stream,  \* the PyAudio capture stream: none, active, stopped, closed
    lt_pa,      \* the PyAudio handle pa: "alive" or "terminated"
    lt_task,    \* the recognition task has been started with on_result
    feed_pc,    \* position of the feed thread
    req_fed,    \* number of buffers appended to req
    console     \* what the last call of on_result printed

ltVars == <<lt_main, ch_in, lt_stream, lt_pa, lt_task, feed_pc, req_fed,
            console>>

VARIABLES
    d_main,         \* position of dual_live_transcribe.py's main thread
    now,            \* the clock read by time.time(), in ticks
    agg_nch,        \* maxInputChannels of the aggregate device found
    src_nch,        \* src_fmt.channelCount() of the engine's input node
    samples_acc,    \* per-channel sums of block RMS values
    samples_cnt,    \* number of blocks accumulated
    calibrated,     \* the calibrated flag
    mic_ch,         \* channel assigned to Person 1
    bh_ch,          \* channels assigned to Person 2
    calib_start,    \* clock reading when the calibration variables were set
    meter_timer,    \* clock reading of the last VU meter line
    last_rms_bh,    \* deque(maxlen=SILENCE_TIMEOUT) of Person 2 RMS values
    sleep_start,    \* clock reading when the countdown sleep began
    alert_hist,     \* per sample of the current silent run: a warning printed
    vu_last,        \* <<the last Person 2 VU value, whether it printed the warning>>
    tap_fc,         \* floatChannelData of the last frame tap routed
    req1,           \* the last buffer appended to req1 (Person 1)
    req2,           \* the last buffer appended to req2 (Person 2)
    req_lead        \* buffers appended to req1 less buffers appended to req2

tapVars == <<d_main, now, agg_nch, src_nch, samples_acc, samples_cnt,
             calibrated, mic_ch, bh_ch, calib_start, meter_timer,
             last_rms_bh, sleep_start, alert_hist,
                                                vu_last, tap_fc, req1, req2,
                                                req_lead>>

VARIABLES
    devices,    \* the devices PyAudio enumerates, in index order
    located     \* what each program's device search has come to

locVars == <<devices, located>>

VARIABLES
    d_engine,   \* the AVAudioEngine: "none", "made" or "running"
    d_tap,      \* tap is installed on the input node
    d_requests, \* the recognition requests made: a subset of {1, 2}
    d_tasks     \* the number of recognition tasks started on each request

dsVars == <<d_engine, d_tap, d_requests, d_tasks>>

VARIABLES
    h_prog,     \* the script whose result handlers are running
    h_file,     \* the text last written to storage for each speaker
    h_printed,  \* the lines the handlers have printed, in order
    h_tasks,    \* the number of recognition tasks of each speaker
    h_last      \* the (result, error) pair of the last callback

hVars == <<h_prog, h_file, h_printed, h_tasks, h_last>>

VARIABLES
    r_pc,       \* position of each RecognitionWorker's run()
    r_stream,   \* each worker's capture stream: none, active, closed
    r_task,     \* the worker's recognition task has been started
    r_stop,     \* the worker's stop_evt is set
    r_q,        \* self.q: the captured blocks not yet taken, oldest first
    r_fed,      \* the blocks appended to self.request, in order
    r_cap,      \* the number of blocks the capture callback has delivered
    r_main,     \* position of main() of live_transcribe_3.py at shutdown
    r_widx,     \* index in DEVICES of the worker main is stopping or joining
    r_after     \* passes of the loop body each worker ended after its stop

runVars == <<r_pc, r_stream, r_task, r_stop, r_q, r_fed, r_cap, r_main,
             r_widx, r_after>>

logVars == <<conversation, conversation_lock, transcript, cbpc, cbtxt, fpc,
             fbuf, mainpc, widx, wpc, stop_evt, stream, task, audio, inflight,
             prev_out, cb_done, cb_bad>>

\* The variables of the other programs.
otherThanLog == <<ltVars, tapVars, locVars, dsVars, hVars, runVars>>
otherThanLt == <<logVars, tapVars, locVars, dsVars, hVars, runVars>>
otherThanTap == <<logVars, ltVars, locVars, dsVars, hVars, runVars>>
otherThanDual == <<logVars, ltVars, locVars, hVars, runVars>>
otherThanLoc == <<logVars, ltVars, tapVars, dsVars, hVars, runVars>>
otherThanHandlers == <<logVars, ltVars, tapVars, locVars, dsVars, runVars>>
otherThanRun == <<logVars, ltVars, tapVars, locVars, dsVars, hVars>>
vars == <<logVars, ltVars, tapVars, locVars, dsVars, hVars, runVars>>

\* strftime('%H:%M:%S') of datetime.fromtimestamp(ts): whole seconds of the
\* day as <<hours, minutes, seconds>>; the fraction of a second is dropped.
SecondsPerDay == 24 * 60 * 60
HMS(ts) ==
    LET sec == (ts \div TicksPerSec) % SecondsPerDay
    IN  <<sec \div 3600, (sec % 3600) \div 60, sec % 60>>

\* One line of the transcript file: "[HH:MM:SS] who: txt\n".
Line(e) == [stamp |-> HMS(e.ts), who |-> e.who, txt |-> e.txt]

\* The lines flush() writes for a list of entries, in list order.
Serialize(conv) == [i \in 1..Len(conv) |-> Line(conv[i])]

\* Closing a file object opened with "w": its buffered lines are written
\* from offset 0 of the file; what the file holds beyond them stays.
Overlay(old, buf) ==
    [i \in 1..Max(Len(old), Len(buf)) |->
        IF i <= Len(buf) THEN buf[i] ELSE old[i]]

\* An insertion that puts the entry before the entries of its timestamp.
RECURSIVE InsertBeforeEqual(_, _)
InsertBeforeEqual(sorted, e) ==
    IF sorted = <<>> THEN <<e>>
    ELSE IF sorted[Len(sorted)].ts < e.ts THEN Append(sorted, e)
    ELSE Append(InsertBeforeEqual(SubSeq(sorted, 1, Len(sorted) - 1), e),
                sorted[Len(sorted)])

\* list.sort(key=lambda t: t[0]): stable, ascending by timestamp.
RECURSIVE InsertByTs(_, _)
InsertByTs(sorted, e) ==
    IF sorted = <<>> THEN <<e>>
    ELSE IF sorted[Len(sorted)].ts <= e.ts THEN Append(sorted, e)
    ELSE Append(InsertByTs(SubSeq(sorted, 1, Len(sorted) - 1), e),
                sorted[Len(sorted)])

RECURSIVE SortByTs(_)
SortByTs(conv) ==
    IF conv = <<>> THEN <<>>
    ELSE InsertByTs(SortByTs(SubSeq(conv, 1, Len(conv) - 1)), conv[Len(conv)])

IsSortedByTs(conv) ==
    \A i \in 1..Len(conv) : \A j \in 1..Len(conv) :
        i < j => conv[i].ts <= conv[j].ts

\* The process runs until main() has returned.
ProcessAlive == mainpc \notin {"done", "exit"}

\* Callbacks that have passed the error check and not yet finished.
Running == {s \in Speakers : cbpc[s] # "idle"}

InitLog ==
    /\ conversation = <<>>
    /\ conversation_lock = None
    /\ transcript = <<>>
    /\ cbpc = [s \in Speakers |-> "idle"]
    /\ cbtxt = [s \in Speakers |-> None]
    /\ fpc = [p \in Callers |-> "idle"]
    /\ fbuf = [p \in Callers |-> <<>>]
    /\ mainpc = "find"
    /\ widx = 1
    /\ wpc = [s \in Speakers |-> "new"]
    /\ stop_evt = [s \in Speakers |-> FALSE]
    /\ stream = [s \in Speakers |-> "none"]
    /\ task = [s \in Speakers |-> FALSE]
    /\ audio = "alive"
    /\ inflight = {}
    /\ prev_out = <<>>
    /\ cb_done = 0
    /\ cb_bad = FALSE

\* A test that lets a callback with an error through when it carries a
\* result.
ReturnsWithoutResult(res, err) == res = None

\* _result, line 116: "if err or not res" sends the callback to the return
\* of line 117.
Returns(res, err) == err \/ res = None

\* A callback that takes the lock before it asks the recognizer's result
\* for its text.
CbCallLocked(s) ==
    /\ ProcessAlive
    /\ task[s]
    /\ cbpc[s] = "idle"
    /\ conversation_lock = None
    /\ Len(conversation) + Cardinality(Running) < MaxLog
    /\ \E res \in Texts \cup {None} : \E err \in BOOLEAN :
          /\ cb_bad' = (cb_bad \/ err \/ res = None)
          /\ IF err \/ res = None
             THEN UNCHANGED <<cbpc, cbtxt, conversation_lock>>
             ELSE /\ cbpc' = [cbpc EXCEPT ![s] = "called"]
                  /\ cbtxt' = [cbtxt EXCEPT ![s] = res]
                  /\ conversation_lock' = s
    /\ UNCHANGED <<conversation, transcript, fpc, fbuf,
                   mainpc, widx, wpc, stop_evt, stream, task, audio, inflight,
                   prev_out, cb_done>>
    /\ UNCHANGED otherThanLog

\* _result(res, err), lines 115-118: a callback with an error or without a
\* result returns at once; otherwise the text is taken from the result.
CbCall(s) ==
    /\ ProcessAlive
    /\ task[s]
    /\ cbpc[s] = "idle"
    /\ Len(conversation) + Cardinality(Running) < MaxLog
    /\ \E res \in Texts \cup {None} : \E err \in BOOLEAN :
          /\ cb_bad' = (cb_bad \/ err \/ res = None)
          /\ IF Returns(res, err)
             THEN UNCHANGED <<cbpc, cbtxt>>
             ELSE /\ cbpc' = [cbpc EXCEPT ![s] = "called"]
                  /\ cbtxt' = [cbtxt EXCEPT ![s] = res]
    /\ UNCHANGED <<conversation, conversation_lock, transcript, fpc, fbuf,
                   mainpc, widx, wpc, stop_evt, stream, task, audio, inflight,
                   prev_out, cb_done>>
    /\ UNCHANGED otherThanLog

\* Lines 119-120: "with conversation_lock:" is entered and the entry is
\* appended with the wall-clock reading time.time(), which is not monotonic.
CbAppend(s) ==
    /\ ProcessAlive
    /\ cbpc[s] = "called"
    /\ conversation_lock = None
    /\ conversation_lock' = s
    /\ \E t \in TimeValues :
          conversation' =
              Append(conversation, [ts |-> t, who |-> s, txt |-> cbtxt[s]])
    /\ cbpc' = [cbpc EXCEPT ![s] = "appended"]
    /\ UNCHANGED <<transcript, cbtxt, fpc, fbuf, mainpc, widx, wpc,
                   stop_evt, stream, task, audio, inflight,
                   prev_out, cb_done, cb_bad>>
    /\ UNCHANGED otherThanLog

\* Line 121: conversation.sort(key=lambda t: t[0]).
CbSort(s) ==
    /\ ProcessAlive
    /\ cbpc[s] = "appended"
    /\ conversation' = SortByTs(conversation)
    /\ cbpc' = [cbpc EXCEPT ![s] = "sorted"]
    /\ UNCHANGED <<conversation_lock, transcript, cbtxt, fpc, fbuf, mainpc,
                   widx, wpc, stop_evt, stream, task, audio, inflight,
                   prev_out, cb_done, cb_bad>>
    /\ UNCHANGED otherThanLog

\* The place a caller calls flush() from: line 122 in _result, line 180 in
\* main.
AtFlushCall(p) ==
    IF p = "main" THEN mainpc = "flush" ELSE cbpc[p] = "sorted"

\* flush(), line 81: open(TRANSCRIPT_FILE, "w") truncates the file.
FlushOpen(p) ==
    /\ ProcessAlive
    /\ AtFlushCall(p)
    /\ fpc[p] = "idle"
    /\ transcript' = <<>>
    /\ fbuf' = [fbuf EXCEPT ![p] = <<>>]
    /\ fpc' = [fpc EXCEPT ![p] = "open"]
    /\ UNCHANGED <<conversation, conversation_lock, cbpc, cbtxt, mainpc,
                   widx, wpc, stop_evt, stream, task, audio, inflight,
                   prev_out, cb_done, cb_bad>>
    /\ UNCHANGED otherThanLog

\* A flush() that drains the log while it writes it.
FlushWriteDraining(p) ==
    /\ ProcessAlive
    /\ fpc[p] = "open"
    /\ fbuf' = [fbuf EXCEPT ![p] = Serialize(conversation)]
    /\ fpc' = [fpc EXCEPT ![p] = "written"]
    /\ conversation' = <<>>
    /\ UNCHANGED <<conversation_lock, transcript, cbpc, cbtxt,
                   mainpc, widx, wpc, stop_evt, stream, task, audio, inflight,
                   prev_out, cb_done, cb_bad>>
    /\ UNCHANGED otherThanLog

\* flush(), lines 82-83: one line per entry of conversation is written to
\* the file object, which buffers it.
FlushWrite(p) ==
    /\ ProcessAlive
    /\ fpc[p] = "open"
    /\ fbuf' = [fbuf EXCEPT ![p] = Serialize(conversation)]
    /\ fpc' = [fpc EXCEPT ![p] = "written"]
    /\ UNCHANGED <<conversation, conversation_lock, transcript, cbpc, cbtxt,
                   mainpc, widx, wpc, stop_evt, stream, task, audio, inflight,
                   prev_out, cb_done, cb_bad>>
    /\ UNCHANGED otherThanLog

\* flush(), end of the "with open" block: the file object is closed, its
\* buffer reaches the file, and flush() returns to its caller.
FlushClose(p) ==
    /\ ProcessAlive
    /\ fpc[p] = "written"
    /\ transcript' = Overlay(transcript, fbuf[p])
    /\ fbuf' = [fbuf EXCEPT ![p] = <<>>]
    /\ fpc' = [fpc EXCEPT ![p] = "idle"]
    /\ IF p = "main"
       THEN mainpc' = "print" /\ UNCHANGED cbpc
       ELSE cbpc' = [cbpc EXCEPT ![p] = "flushed"] /\ UNCHANGED mainpc
    /\ UNCHANGED <<conversation, conversation_lock, cbtxt, widx, wpc,
                   stop_evt, stream, task, audio, inflight,
                   prev_out, cb_done, cb_bad>>
    /\ UNCHANGED otherThanLog

\* A callback that returns without leaving its "with" block.
CbReleaseKeepsLock(s) ==
    /\ ProcessAlive
    /\ cbpc[s] = "flushed"
    /\ cbpc' = [cbpc EXCEPT ![s] = "idle"]
    /\ cbtxt' = [cbtxt EXCEPT ![s] = None]
    /\ inflight' = inflight \ {s}
    /\ cb_done' = cb_done + 1
    /\ UNCHANGED <<conversation, conversation_lock, transcript, fpc, fbuf,
                   mainpc, widx, wpc, stop_evt, stream, task, audio, prev_out,
                   cb_bad>>
    /\ UNCHANGED otherThanLog

\* Line 123 and the end of "with conversation_lock:": the result is printed
\* and the lock released; _result returns.
CbRelease(s) ==
    /\ ProcessAlive
    /\ cbpc[s] = "flushed"
    /\ conversation_lock' = None
    /\ cbpc' = [cbpc EXCEPT ![s] = "idle"]
    /\ cbtxt' = [cbtxt EXCEPT ![s] = None]
    /\ inflight' = inflight \ {s}
    /\ cb_done' = cb_done + 1
    /\ UNCHANGED <<conversation, transcript, fpc, fbuf, mainpc, widx, wpc,
                   stop_evt, stream, task, audio, prev_out, cb_bad>>
    /\ UNCHANGED otherThanLog

\* RecognitionWorker.run, lines 126-135: the capture stream is opened and
\* started.
WOpen(s) ==
    /\ ProcessAlive
    /\ wpc[s] = "started"
    /\ stream' = [stream EXCEPT ![s] = "active"]
    /\ wpc' = [wpc EXCEPT ![s] = "task"]
    /\ UNCHANGED <<conversation, conversation_lock, transcript, cbpc, cbtxt,
                   fpc, fbuf, mainpc, widx, stop_evt, task, audio, inflight,
                   prev_out, cb_done, cb_bad>>
    /\ UNCHANGED otherThanLog

\* Line 136: the recognition task is started with _result as its handler.
WTask(s) ==
    /\ ProcessAlive
    /\ wpc[s] = "task"
    /\ task' = [task EXCEPT ![s] = TRUE]
    /\ wpc' = [wpc EXCEPT ![s] = "loop"]
    /\ UNCHANGED <<conversation, conversation_lock, transcript, cbpc, cbtxt,
                   fpc, fbuf, mainpc, widx, stop_evt, stream, audio, inflight,
                   prev_out, cb_done, cb_bad>>
    /\ UNCHANGED otherThanLog

\* Lines 137-151: one test of "while not self.stop_evt.is_set()"; an
\* iteration of the body leaves the state modelled here as it is.
WLoop(s) ==
    /\ ProcessAlive
    /\ wpc[s] = "loop"
    /\ wpc' = [wpc EXCEPT ![s] = IF stop_evt[s] THEN "stop" ELSE "loop"]
    /\ UNCHANGED <<conversation, conversation_lock, transcript, cbpc, cbtxt,
                   fpc, fbuf, mainpc, widx, stop_evt, stream, task, audio,
                   inflight, prev_out, cb_done, cb_bad>>
    /\ UNCHANGED otherThanLog

\* Line 152: stream.stop_stream().
WStopStream(s) ==
    /\ ProcessAlive
    /\ wpc[s] = "stop"
    /\ stream' = [stream EXCEPT ![s] = "stopped"]
    /\ wpc' = [wpc EXCEPT ![s] = "close"]
    /\ UNCHANGED <<conversation, conversation_lock, transcript, cbpc, cbtxt,
                   fpc, fbuf, mainpc, widx, stop_evt, task, audio, inflight,
                   prev_out, cb_done, cb_bad>>
    /\ UNCHANGED otherThanLog

\* Line 153: stream.close(); run returns and the thread ends.
WClose(s) ==
    /\ ProcessAlive
    /\ wpc[s] = "close"
    /\ stream' = [stream EXCEPT ![s] = "closed"]
    /\ wpc' = [wpc EXCEPT ![s] = "done"]
    /\ UNCHANGED <<conversation, conversation_lock, transcript, cbpc, cbtxt,
                   fpc, fbuf, mainpc, widx, stop_evt, task, audio, inflight,
                   prev_out, cb_done, cb_bad>>
    /\ UNCHANGED otherThanLog

\* The workers as main() would leave them on a failed search if each were
\* started as soon as its device was found.
WorkersStartedAsFound(found) ==
    [s \in Speakers |->
        IF \E i \in 1..Len(DEVICES) :
              /\ DEVICES[i] = s
              /\ \A j \in 1..i : found[j]
        THEN "started" ELSE wpc[s]]

\* Lines 162-170: the workers are only made in the search loop and started
\* after it, so a search that fails leaves every worker as it was.
WorkersBeforeStart(found) == wpc

\* Lines 162-168: find_device is called for each of DEVICES in turn; main
\* exits at the first that is not found.
MainFind ==
    /\ mainpc = "find"
    /\ \E found \in [1..Len(DEVICES) -> BOOLEAN] :
          IF \A i \in 1..Len(DEVICES) : found[i]
          THEN mainpc' = "start" /\ UNCHANGED wpc
          ELSE mainpc' = "exit" /\ wpc' = WorkersBeforeStart(found)
    /\ UNCHANGED <<conversation, conversation_lock, transcript, cbpc, cbtxt,
                   fpc, fbuf, widx, stop_evt, stream, task, audio, inflight,
                   prev_out, cb_done, cb_bad>>
    /\ UNCHANGED otherThanLog

\* main, lines 162-171: the workers are created and started.
MainStart ==
    /\ mainpc = "start"
    /\ wpc' = [s \in Speakers |-> "started"]
    /\ mainpc' = "listening"
    /\ UNCHANGED <<conversation, conversation_lock, transcript, cbpc, cbtxt,
                   fpc, fbuf, widx, stop_evt, stream, task, audio, inflight,
                   prev_out, cb_done, cb_bad>>
    /\ UNCHANGED otherThanLog

\* Lines 172-176: Ctrl-C ends the sleep loop and starts the shutdown.
KeyboardInterrupt ==
    /\ mainpc = "listening"
    /\ mainpc' = "stop"
    /\ widx' = 1
    /\ inflight' = Running
    /\ UNCHANGED <<conversation, conversation_lock, transcript, cbpc, cbtxt,
                   fpc, fbuf, wpc, stop_evt, stream, task, audio, prev_out,
                   cb_done, cb_bad>>
    /\ UNCHANGED otherThanLog

\* Line 177: w.stop() sets the worker's stop event.
MainStop ==
    /\ mainpc = "stop"
    /\ stop_evt' = [stop_evt EXCEPT ![DEVICES[widx]] = TRUE]
    /\ mainpc' = "join"
    /\ UNCHANGED <<conversation, conversation_lock, transcript, cbpc, cbtxt,
                   fpc, fbuf, widx, wpc, stream, task, audio, inflight,
                   prev_out, cb_done, cb_bad>>
    /\ UNCHANGED otherThanLog

\* Line 178: w.join() returns once the worker's run has returned.
MainJoin ==
    /\ mainpc = "join"
    /\ wpc[DEVICES[widx]] = "done"
    /\ widx' = widx + 1
    /\ mainpc' = IF widx = Len(DEVICES) THEN "terminate" ELSE "stop"
    /\ UNCHANGED <<conversation, conversation_lock, transcript, cbpc, cbtxt,
                   fpc, fbuf, wpc, stop_evt, stream, task, audio, inflight,
                   prev_out, cb_done, cb_bad>>
    /\ UNCHANGED otherThanLog

\* Line 179: audio.terminate() releases the audio device handle.
MainTerminate ==
    /\ mainpc = "terminate"
    /\ audio' = "terminated"
    /\ mainpc' = "flush"
    /\ UNCHANGED <<conversation, conversation_lock, transcript, cbpc, cbtxt,
                   fpc, fbuf, widx, wpc, stop_evt, stream, task, inflight,
                   prev_out, cb_done, cb_bad>>
    /\ UNCHANGED otherThanLog

\* Line 181: the path is printed, main returns and the process ends; its
\* threads and callbacks run no further.
MainReturn ==
    /\ mainpc = "print"
    /\ mainpc' = "done"
    /\ UNCHANGED <<conversation, conversation_lock, transcript, cbpc, cbtxt,
                   fpc, fbuf, widx, wpc, stop_evt, stream, task, audio,
                   inflight, prev_out, cb_done, cb_bad>>
    /\ UNCHANGED otherThanLog

\* main is in its sleep loop (lines 173-174): both workers have opened
\* their streams and started their recognition tasks; no result has come.
InitListening ==
    /\ conversation = <<>>
    /\ conversation_lock = None
    /\ transcript = <<>>
    /\ cbpc = [s \in Speakers |-> "idle"]
    /\ cbtxt = [s \in Speakers |-> None]
    /\ fpc = [p \in Callers |-> "idle"]
    /\ fbuf = [p \in Callers |-> <<>>]
    /\ mainpc = "listening"
    /\ widx = 1
    /\ wpc = [s \in Speakers |-> "loop"]
    /\ stop_evt = [s \in Speakers |-> FALSE]
    /\ stream = [s \in Speakers |-> "active"]
    /\ task = [s \in Speakers |-> TRUE]
    /\ audio = "alive"
    /\ inflight = {}
    /\ prev_out = <<>>
    /\ cb_done = 0
    /\ cb_bad = FALSE

\* The result callbacks of the two sessions while main sleeps.
NextResults ==
    \/ \E s \in Speakers : CbCall(s)
    \/ \E s \in Speakers : CbAppend(s)
    \/ \E s \in Speakers : CbSort(s)
    \/ \E s \in Speakers : FlushOpen(s)
    \/ \E s \in Speakers : FlushWrite(s)
    \/ \E s \in Speakers : FlushClose(s)
    \/ \E s \in Speakers : CbRelease(s)

\* A running callback is a thread that is scheduled again and again: each
\* of its steps is taken once it can be.  Nothing obliges the recognizer to
\* call back at all, so CbCall has no fairness.
CallbackFairness ==
    \A s \in Speakers :
        /\ WF_vars(CbAppend(s))
        /\ WF_vars(CbSort(s))
        /\ WF_vars(FlushOpen(s))
        /\ WF_vars(FlushWrite(s))
        /\ WF_vars(FlushClose(s))
        /\ WF_vars(CbRelease(s))

\* The number of entries of the log that speaker s made.
EntriesOf(conv, s) == Cardinality({i \in 1..Len(conv) : conv[i].who = s})

NextLog ==
    \/ \E s \in Speakers : CbCall(s)
    \/ \E s \in Speakers : CbAppend(s)
    \/ \E s \in Speakers : CbSort(s)
    \/ \E p \in Callers : FlushOpen(p)
    \/ \E p \in Callers : FlushWrite(p)
    \/ \E p \in Callers : FlushClose(p)
    \/ \E s \in Speakers : CbRelease(s)
    \/ \E s \in Speakers : WOpen(s)
    \/ \E s \in Speakers : WTask(s)
    \/ \E s \in Speakers : WLoop(s)
    \/ \E s \in Speakers : WStopStream(s)
    \/ \E s \in Speakers : WClose(s)
    \/ MainFind
    \/ MainStart
    \/ KeyboardInterrupt
    \/ MainStop
    \/ MainJoin
    \/ MainTerminate
    \/ MainReturn

\* ------------------------------------------------------------------------
\* live_transcribe.py
\* ------------------------------------------------------------------------

\* The script's process runs until its main thread ends, by an exception
\* during setup or after the finally block.
LtAlive == lt_main \notin {"failed", "stopped"}

InitLt ==
    /\ lt_main = "locate"
    /\ ch_in = None
    /\ lt_stream = "none"
    /\ lt_pa = "alive"
    /\ lt_task = FALSE
    /\ feed_pc = "new"
    /\ req_fed = 0
    /\ console = None

\* Lines 31-40: the aggregate device is looked up by name; RuntimeError when
\* no device matches.
LtLocate ==
    /\ lt_main = "locate"
    /\ \E found \in BOOLEAN : \E nch \in 1..MaxChannels :
          IF found
          THEN ch_in' = nch /\ lt_main' = "open"
          ELSE ch_in' = ch_in /\ lt_main' = "failed"
    /\ UNCHANGED <<lt_stream, lt_pa, lt_task, feed_pc, req_fed, console>>
    /\ UNCHANGED otherThanLt

\* Line 43: pa.open(...) opens and starts the capture stream.
LtOpen ==
    /\ lt_main = "open"
    /\ lt_stream' = "active"
    /\ lt_main' = "recog"
    /\ UNCHANGED <<ch_in, lt_pa, lt_task, feed_pc, req_fed, console>>
    /\ UNCHANGED otherThanLt

\* Lines 47-62: RuntimeError when the recognizer is unavailable; otherwise
\* the request is made and the recognition task started.
LtRecognizer ==
    /\ lt_main = "recog"
    /\ \E available \in BOOLEAN :
          IF available
          THEN lt_task' = TRUE /\ lt_main' = "thread"
          ELSE lt_task' = lt_task /\ lt_main' = "failed"
    /\ UNCHANGED <<ch_in, lt_stream, lt_pa, feed_pc, req_fed, console>>
    /\ UNCHANGED otherThanLt

\* Line 91: the daemon feed thread is started.
LtStartFeed ==
    /\ lt_main = "thread"
    /\ feed_pc' = "read"
    /\ lt_main' = "run"
    /\ UNCHANGED <<ch_in, lt_stream, lt_pa, lt_task, req_fed, console>>
    /\ UNCHANGED otherThanLt

\* Lines 95-98: Ctrl-C ends NSRunLoop.run(); the finally block is entered.
LtInterrupt ==
    /\ lt_main = "run"
    /\ lt_main' = "stop_stream"
    /\ UNCHANGED <<ch_in, lt_stream, lt_pa, lt_task, feed_pc, req_fed,
                   console>>
    /\ UNCHANGED otherThanLt

\* Line 100: stream.stop_stream().
LtStopStream ==
    /\ lt_main = "stop_stream"
    /\ lt_stream' = "stopped"
    /\ lt_main' = "close"
    /\ UNCHANGED <<ch_in, lt_pa, lt_task, feed_pc, req_fed, console>>
    /\ UNCHANGED otherThanLt

\* Line 100: stream.close().
LtClose ==
    /\ lt_main = "close"
    /\ lt_stream' = "closed"
    /\ lt_main' = "terminate"
    /\ UNCHANGED <<ch_in, lt_pa, lt_task, feed_pc, req_fed, console>>
    /\ UNCHANGED otherThanLt

\* Lines 100-101: pa.terminate(); the script ends.
LtTerminate ==
    /\ lt_main = "terminate"
    /\ lt_pa' = "terminated"
    /\ lt_main' = "stopped"
    /\ UNCHANGED <<ch_in, lt_stream, lt_task, feed_pc, req_fed, console>>
    /\ UNCHANGED otherThanLt

\* feed, line 73: stream.read(CHUNK, exception_on_overflow=False) returns a
\* chunk while the stream is active; on a stream that has been stopped or
\* closed it raises, and the exception ends the thread.
FeedRead ==
    /\ LtAlive
    /\ feed_pc = "read"
    /\ req_fed < MaxFed
    /\ feed_pc' = IF lt_stream = "active" THEN "got" ELSE "dead"
    /\ UNCHANGED <<lt_main, ch_in, lt_stream, lt_pa, lt_task, req_fed,
                   console>>
    /\ UNCHANGED otherThanLt

\* feed, lines 75-89: the chunk is folded to mono, copied into a PCM buffer
\* and appended to the request; the loop goes back to read.  The loop body
\* has no try/except: when one of these steps raises (ok = FALSE) the
\* exception leaves feed() and the thread ends with the capture stream
\* still active.
FeedAppend ==
    /\ LtAlive
    /\ feed_pc = "got"
    /\ \E ok \in BOOLEAN :
          IF ok
          THEN req_fed' = req_fed + 1 /\ feed_pc' = "read"
          ELSE req_fed' = req_fed /\ feed_pc' = "crashed"
    /\ UNCHANGED <<lt_main, ch_in, lt_stream, lt_pa, lt_task, console>>
    /\ UNCHANGED otherThanLt

\* on_result, lines 56-60: a result is printed; an error without a result
\* is printed as a recognition error.
LtOnResult ==
    /\ LtAlive
    /\ lt_task
    /\ \E res \in Texts \cup {None} : \E err \in BOOLEAN :
          console' = IF res # None THEN res
                     ELSE IF err THEN "Recognition error"
                     ELSE console
    /\ UNCHANGED <<lt_main, ch_in, lt_stream, lt_pa, lt_task, feed_pc,
                   req_fed>>
    /\ UNCHANGED otherThanLt

NextLt ==
    \/ LtLocate
    \/ LtOpen
    \/ LtRecognizer
    \/ LtStartFeed
    \/ LtInterrupt
    \/ LtStopStream
    \/ LtClose
    \/ LtTerminate
    \/ FeedRead
    \/ FeedAppend
    \/ LtOnResult

\* The feed thread is running: it is inside stream.read or handling a chunk.
FeedThreadRunning == feed_pc \in {"read", "got"}

\* C4: the capture stream is stopped before the audio handle is released,
\* and the feed thread has ended (it no longer reads from the stream) by
\* the time the stream is closed or the handle released.
C4_ShutdownOrder ==
    /\ lt_pa = "terminated" => lt_stream \in {"stopped", "closed"}
    /\ (lt_stream = "closed" \/ lt_pa = "terminated") => ~FeedThreadRunning


\* ------------------------------------------------------------------------
\* The device searches of dual_live_transcribe.py, live_transcribe_3.py and
\* record.py (SpecLocate)
\* ------------------------------------------------------------------------
\* A device as the searches see it: whether its name contains the name
\* sought as written, whether it does once both are put in lower case, and
\* its maxInputChannels.
DeviceInfos ==
    {d \in [has : BOOLEAN, has_lower : BOOLEAN, nch : 0..MaxChannels] :
        d.has => d.has_lower}

DeviceLists == UNION {[1..n -> DeviceInfos] : n \in 0..MaxDevices}

Locators == {"dual", "find_device", "record"}

\* "agg_nch < 3" and "src_fmt.channelCount() < 3": the fewest channels
\* the program starts with.
MIN_CHANNELS == 3
\* record.py, line 9: CHANNELS.
CHANNELS == 3

\* The lowest index i with hits[i] true, 0 if there is none: the device a
\* "for i in range(get_device_count())" loop stops at.
FirstIndex(hits) ==
    IF \E i \in 1..Len(hits) : hits[i]
    THEN CHOOSE i \in 1..Len(hits) :
            hits[i] /\ \A j \in 1..(i - 1) : ~hits[j]
    ELSE 0

Found(i, devs) == [status |-> "found", index |-> i, nch |-> devs[i].nch]
Failed(why) == [status |-> why, index |-> 0, nch |-> 0]
\* No search has been made.
Unsearched == [status |-> "none", index |-> 0, nch |-> 0]

\* dual_live_transcribe.py, lines 105-115: the first device whose name
\* contains AGG_NAME; the program exits, with one message for both cases,
\* if there is none or it has fewer than 3 input channels.
LocateAggregate(devs) ==
    LET i == FirstIndex([k \in 1..Len(devs) |-> devs[k].has])
    IN  IF i = 0 \/ devs[i].nch < MIN_CHANNELS
        THEN Failed("not found or too few channels")
        ELSE Found(i, devs)

\* live_transcribe_3.py, find_device, lines 71-77: the first device with
\* input channels whose lower-case name contains the lower-case name
\* sought; RuntimeError if there is none.
FindDevice(devs) ==
    LET i == FirstIndex([k \in 1..Len(devs) |->
                           devs[k].nch > 0 /\ devs[k].has_lower])
    IN  IF i = 0 THEN Failed("not found") ELSE Found(i, devs)

\* record.py, lines 17-34: the first device whose name contains the name
\* sought; the program exits if it has fewer than CHANNELS input channels
\* or if there is none.
LocateRecord(devs) ==
    LET i == FirstIndex([k \in 1..Len(devs) |-> devs[k].has])
    IN  IF i = 0 THEN Failed("not found")
        ELSE IF devs[i].nch < CHANNELS THEN Failed("too few channels")
        ELSE Found(i, devs)

\* No device has been enumerated.
InitLoc ==
    /\ devices = <<>>
    /\ located = [l \in Locators |-> Unsearched]

\* A program searches the devices.
Locate(l) ==
    /\ located[l] = Unsearched
    /\ located' = [located EXCEPT ![l] =
                      IF l = "dual" THEN LocateAggregate(devices)
                      ELSE IF l = "find_device" THEN FindDevice(devices)
                      ELSE LocateRecord(devices)]
    /\ UNCHANGED devices
    /\ UNCHANGED otherThanLoc

NextLocate == \E l \in Locators : Locate(l)

\* ------------------------------------------------------------------------
\* live_transcribe_testing/dual_live_transcribe.py
\* Samples and RMS values are whole numbers of 0.0001; the clock counts
\* ticks of 1 / TicksPerSec seconds.
\* ------------------------------------------------------------------------
\* SILENCE_THRESH = 0.0004.
SILENCE_THRESH == 4
\* SILENCE_TIMEOUT = 3: the capacity of the deque last_rms_bh.
SILENCE_TIMEOUT == 3
\* CALIBRATION_SECONDS = 1.5, counted in half seconds.
CALIBRATION_HALF_SECONDS == 3
\* range(3): the channels tap accumulates, compares and routes.
TapChannels == 0..2

\* The per-channel sample blocks of the frames delivered to tap.
SampleBlocks ==
    {<<>>, <<0>>, <<4>>, <<0, 0>>, <<4, -4>>}

\* buffer.floatChannelData() of a frame, over the channels tap reads: every
\* channel has frameLength samples.
Frames3 ==
    {f \in [TapChannels -> SampleBlocks] :
        \A c \in TapChannels : Len(f[c]) = Len(f[0])}

\* The frame over all nch channels of the input format; tap never reads a
\* channel beyond the first three, which are given silence here.
FrameOf(f3, nch) ==
    [c \in 0..(nch - 1) |->
        IF c \in TapChannels THEN f3[c] ELSE [i \in 1..Len(f3[0]) |-> 0]]

\* Largest r in lo..hi with r * r <= x, found by bisection.
RECURSIVE ISqrtIn(_, _, _)
ISqrtIn(x, lo, hi) ==
    IF lo >= hi THEN lo
    ELSE LET mid == (lo + hi + 1) \div 2
         IN  IF mid * mid <= x THEN ISqrtIn(x, mid, hi)
             ELSE ISqrtIn(x, lo, mid - 1)

\* Largest r with r * r <= x, for x below 2^31.
ISqrt(x) == ISqrtIn(x, 0, IF x > 46340 THEN 46340 ELSE x)

RECURSIVE SumSq(_, _)
SumSq(arr, n) ==
    IF n = 0 THEN 0 ELSE SumSq(arr, n - 1) + arr[n] * arr[n]

\* rms(arr, n), lines 77-83: sqrt(sum of squares / n), 0.0 for n = 0; the
\* square root is taken down to a whole number of 0.0001.
Rms(arr, n) == IF n = 0 THEN 0 ELSE ISqrt(SumSq(arr, n) \div n)

\* A quotient e / samples_cnt of line 176, kept as <<numerator, divisor>>,
\* and the order of two quotients.
Quot(e, cnt) == <<e, cnt>>
QuotGT(x, y) == x[1] * y[2] > y[1] * x[2]
QuotGE(x, y) == x[1] * y[2] >= y[1] * x[2]

\* max(range(3), key=...) keeping the last of several largest keys.
RECURSIVE PyMaxLastFrom(_, _, _)
PyMaxLastFrom(key, best, c) ==
    IF c \notin TapChannels THEN best
    ELSE PyMaxLastFrom(key, IF QuotGE(key[c], key[best]) THEN c ELSE best,
                       c + 1)
PyMaxLast(key) == PyMaxLastFrom(key, 0, 1)

\* max(range(3), key=avg.__getitem__), line 177: the channels are visited
\* in order and a later one replaces the best only with a larger key.
RECURSIVE PyMaxFrom(_, _, _)
PyMaxFrom(key, best, c) ==
    IF c \notin TapChannels THEN best
    ELSE PyMaxFrom(key, IF QuotGT(key[c], key[best]) THEN c ELSE best, c + 1)
PyMax(key) == PyMaxFrom(key, 0, 1)

\* The channels of Person 2 left as they were initialised at line 153.
OtherChannelsInitial(m) == <<0, 1>>

\* tuple(c for c in range(3) if c != mic_ch), line 178.
OtherChannels(m) == SelectSeq(<<0, 1, 2>>, LAMBDA c : c # m)

\* "if not calibrated" with the test of the flag left out.
NeedsCalibrationAlways == TRUE

\* "if not calibrated" with the elapsed time tested in place of the flag.
NeedsCalibrationUntilWindow ==
    /\ ~calibrated
    /\ 2 * (now - calib_start) < CALIBRATION_HALF_SECONDS * TicksPerSec

\* A block count that is raised only after the averages are taken.
CountBefore(cnt) == cnt

\* Line 174: samples_cnt += 1, before the test of line 175 and the
\* division of line 176.
CountAfter(cnt) == cnt + 1

\* Line 171: "if not calibrated".
NeedsCalibration == ~calibrated

\* deque.append on a deque with maxlen: the oldest value is dropped from a
\* full deque.
DequeAppend(dq, v, maxlen) ==
    IF Len(dq) < maxlen THEN Append(dq, v) ELSE Append(Tail(dq), v)

\* Line 210 without the test of the deque's length.
LooksSilentNotFull(dq) == \A i \in 1..Len(dq) : dq[i] < SILENCE_THRESH

\* Line 210: the deque is full and every value in it is below the
\* threshold.
LooksSilent(dq) ==
    /\ Len(dq) = SILENCE_TIMEOUT
    /\ \A i \in 1..Len(dq) : dq[i] < SILENCE_THRESH

\* The watchdog without last_rms_bh.clear().
WatchdogNoClear(dq, v) == DequeAppend(dq, v, SILENCE_TIMEOUT)

\* Lines 209-212: the deque after a VU sample v has been appended and, if
\* the warning was printed, cleared.
Watchdog(dq, v) ==
    LET appended == DequeAppend(dq, v, SILENCE_TIMEOUT)
    IN  IF LooksSilent(appended) THEN <<>> ELSE appended

\* Whether the warning of line 211 is printed for sample v.
Warns(dq, v) == LooksSilent(DequeAppend(dq, v, SILENCE_TIMEOUT))

\* The downmix taking the first of the two channels alone.
DownmixLeft(bh_l, bh_r, n) == [i \in 1..n |-> bh_l[i]]

\* The downmix with the factor 0.5 left out.
DownmixSum(bh_l, bh_r, n) == [i \in 1..n |-> bh_l[i] + bh_r[i]]

\* A frame whose Person 2 buffer is made and not appended.
AppendsFirstOnly == <<1, 0>>

\* Lines 190 and 202: the number of appendAudioPCMBuffer_ calls tap makes
\* on req1 and on req2 for one frame it routes.
AppendsPerFrame == <<1, 1>>

\* Each buffer appended to the other speaker's request.
RouteSwapped(buf1, buf2) == <<buf2, buf1>>

\* Lines 190 and 202: req1.appendAudioPCMBuffer_(buf1) and
\* req2.appendAudioPCMBuffer_(buf2): the buffer each request is given.
Route(buf1, buf2) == <<buf1, buf2>>

\* Lines 200-201: buf2_data[i] = 0.5 * (bh_l[i] + bh_r[i]).
Downmix(bh_l, bh_r, n) == [i \in 1..n |-> (bh_l[i] + bh_r[i]) \div 2]

\* live_transcribe_2.py, avg_f32, lines 82-87:
\* dst[i] = 0.5 * (src1[i] + src2[i]).
AvgF32(src1, src2, frames) ==
    [i \in 1..frames |-> (src1[i] + src2[i]) \div 2]

\* live_transcribe_3.py, _downmix_to_mono, lines 108-112: the sum of the
\* inch interleaved samples of frame i.
RECURSIVE FrameSum(_, _, _, _)
FrameSum(samples, inch, i, ch) ==
    IF ch = 0 THEN 0
    ELSE FrameSum(samples, inch, i, ch - 1) + samples[(i - 1) * inch + ch]

\* live_transcribe_3.py, _downmix_to_mono, lines 101-113, on samples rather
\* than bytes: raw itself for one channel; otherwise for each whole frame
\* the quotient acc / inch.
DownmixToMono(raw, inch) ==
    IF inch = 1 THEN [i \in 1..Len(raw) |-> Quot(raw[i], 1)]
    ELSE [i \in 1..(Len(raw) \div inch) |->
             Quot(FrameSum(raw, inch, i, inch), inch)]

\* The dual program's process is alive: it has neither called sys.exit nor
\* run off the end of the script.
TapAlive == d_main \notin {"exit", "ended"}

\* ---------------------------------------------------------------------------
\* The recognition result handlers: mk_handler of live_transcribe_2.py, the
\* two lambdas of dual_live_transcribe.py, on_result of live_transcribe.py
\* and RecognitionWorker._result of live_transcribe_3.py.  A callback
\* carries a result or None, and an error code or None.

MaxPrinted == 2

\* The code of the "no speech detected" error, live_transcribe_2.py:66.
NO_SPEECH == 1110

\* The error codes a callback can carry: "no speech" and one other code.
ErrorCodes == {NO_SPEECH, 203}

\* The error argument of a callback: no error, or an NSError with a code.
NoError == <<>>
Errors == {<<c>> : c \in ErrorCodes}
Code(err) == err[1]

Handlers == {"lt2", "dual", "lt", "lt3"}

\* live_transcribe.py has one session; the other scripts have two.
HandlerSpeakers(prog) == IF prog = "lt" THEN {1} ELSE {1, 2}

\* The texts a result can carry to a handler: those of Texts and a longer
\* one.
ResultTexts == Texts \cup {"abc"}

\* fp.seek(0); fp.write(txt), live_transcribe_2.py:62: the text replaces
\* the characters at the start of the file; what the file holds beyond the
\* end of the text stays.
WriteAtStart(content, txt) ==
    txt \o SubSeq(content, Len(txt) + 1, Len(content))

\* fp.truncate(), live_transcribe_2.py:63: the file is cut at the file
\* position.
TruncateAt(content, pos) == SubSeq(content, 1, pos)

\* A rewrite that leaves out the truncate.
RewriteNoTruncate(content, txt) == WriteAtStart(content, txt)

\* seek(0), write, truncate, flush: live_transcribe_2.py:62-63 and
\* dual_live_transcribe.py:145-146; the position after the write is the
\* end of the text.
Rewrite(content, txt) == TruncateAt(WriteAtStart(content, txt), Len(txt))

\* What one handler call leaves in storage and on the console.
Effect(file, printed) == [file |-> file, printed |-> printed]

\* live_transcribe_2.py, _handler, lines 60-67: a result is written to the
\* speaker's file; an error is printed unless its code is 1110.
MkHandler(who, res, err, file, printed) ==
    IF res # None
    THEN Effect([file EXCEPT ![who] = Rewrite(file[who], res)], printed)
    ELSE IF err # NoError /\ Code(err) # NO_SPEECH
         THEN Effect(file, Append(printed, <<"Recognition error", who, Code(err)>>))
         ELSE Effect(file, printed)

\* dual_live_transcribe.py, lines 145-146: a result is written to the
\* speaker's file and printed; otherwise "e and print(tag, e)" prints every
\* error there is.
DualHandler(who, res, err, file, printed) ==
    IF res # None
    THEN Effect([file EXCEPT ![who] = Rewrite(file[who], res)],
                Append(printed, <<"P", who, res>>))
    ELSE IF err # NoError
         THEN Effect(file, Append(printed, <<"[P]", who, Code(err)>>))
         ELSE Effect(file, printed)

\* live_transcribe.py, on_result, lines 56-60: a result is printed; an
\* error without a result is printed as a recognition error.
OnResult(who, res, err, file, printed) ==
    IF res # None
    THEN Effect(file, Append(printed, <<"P", who, res>>))
    ELSE IF err # NoError
         THEN Effect(file, Append(printed, <<"Recognition error", who, Code(err)>>))
         ELSE Effect(file, printed)

\* live_transcribe_3.py, _result, lines 115-123: "if err or not res:
\* return"; otherwise the text is appended to the log, the file rewritten
\* and the line printed.
Result(who, res, err, file, printed) ==
    IF err # NoError \/ res = None
    THEN Effect(file, printed)
    ELSE Effect([file EXCEPT ![who] = res], Append(printed, <<"P", who, res>>))

HandlerOf(prog, who, res, err, file, printed) ==
    CASE prog = "lt2" -> MkHandler(who, res, err, file, printed)
      [] prog = "dual" -> DualHandler(who, res, err, file, printed)
      [] prog = "lt" -> OnResult(who, res, err, file, printed)
      [] prog = "lt3" -> Result(who, res, err, file, printed)

\* No callback has been delivered yet.
NoCall == [who |-> 0, res |-> None, err |-> NoError]

\* No handler script is running.
InitH ==
    /\ h_prog = "none"
    /\ h_file = [who \in {1, 2} |-> ""]
    /\ h_printed = <<>>
    /\ h_tasks = [who \in {1, 2} |-> 0]
    /\ h_last = NoCall

\* The recognizer calls a speaker's handler with a result, an error or
\* both.  The handler makes no request and starts no task.
HCall(who, res, err) ==
    /\ h_prog \in Handlers
    /\ who \in HandlerSpeakers(h_prog)
    /\ res # None \/ err # NoError
    /\ Len(h_printed) < MaxPrinted
    /\ LET eff == HandlerOf(h_prog, who, res, err, h_file, h_printed)
       IN  /\ h_file' = eff.file
           /\ h_printed' = eff.printed
    /\ h_last' = [who |-> who, res |-> res, err |-> err]
    /\ UNCHANGED <<h_prog, h_tasks>>
    /\ UNCHANGED otherThanHandlers

NextHandlers ==
    \E who \in {1, 2} : \E res \in ResultTexts \cup {None} :
        \E err \in Errors \cup {NoError} : HCall(who, res, err)

\* ---------------------------------------------------------------------------
\* The RecognitionWorkers of live_transcribe_3.py with their frame queues:
\* a worker's capture callback puts blocks on self.q and its run() takes
\* them off and appends them to self.request.  The blocks of a worker are
\* numbered in the order its callback delivers them.

\* The blocks the capture callback delivers in a run.
MaxCaptured == 3

\* A queue that hands out its newest block first.
QueueGetNewest(q) == [item |-> q[Len(q)], rest |-> SubSeq(q, 1, Len(q) - 1)]

\* queue.Queue.get, line 139: the oldest block is taken off the queue.
QueueGet(q) == [item |-> Head(q), rest |-> Tail(q)]

\* A loop test that lets the worker go on while blocks are queued.
LoopExitsWhenDrained(stopped, q) == stopped /\ q = <<>>

\* run, line 137: "while not self.stop_evt.is_set()" leaves the loop as
\* soon as the event is set, whatever the queue holds.
LoopExits(stopped, q) == stopped

\* main has made the workers and started their threads and sleeps in its
\* loop of lines 173-174.
InitRun ==
    /\ r_pc = [s \in Speakers |-> "open"]
    /\ r_stream = [s \in Speakers |-> "none"]
    /\ r_task = [s \in Speakers |-> FALSE]
    /\ r_stop = [s \in Speakers |-> FALSE]
    /\ r_q = [s \in Speakers |-> <<>>]
    /\ r_fed = [s \in Speakers |-> <<>>]
    /\ r_cap = [s \in Speakers |-> 0]
    /\ r_main = "listening"
    /\ r_widx = 1
    /\ r_after = [s \in Speakers |-> 0]

\* run, lines 126-135: the capture stream is opened with _callback as its
\* stream callback and started.
RunOpen(s) ==
    /\ r_pc[s] = "open"
    /\ r_stream' = [r_stream EXCEPT ![s] = "active"]
    /\ r_pc' = [r_pc EXCEPT ![s] = "task"]
    /\ UNCHANGED <<r_task, r_stop, r_q, r_fed, r_cap, r_main, r_widx, r_after>>
    /\ UNCHANGED otherThanRun

\* _callback, lines 97-99: PortAudio delivers a block; self.q.put(data) on
\* a queue without a maximum size, then (None, paContinue) is returned.
Callback(s) ==
    /\ r_stream[s] = "active"
    /\ r_cap[s] < MaxCaptured
    /\ r_cap' = [r_cap EXCEPT ![s] = r_cap[s] + 1]
    /\ r_q' = [r_q EXCEPT ![s] = Append(r_q[s], r_cap[s] + 1)]
    /\ UNCHANGED <<r_pc, r_stream, r_task, r_stop, r_fed, r_main, r_widx,
                   r_after>>
    /\ UNCHANGED otherThanRun

\* run, line 136: the recognition task is started on self.request.
RunTask(s) ==
    /\ r_pc[s] = "task"
    /\ r_task' = [r_task EXCEPT ![s] = TRUE]
    /\ r_pc' = [r_pc EXCEPT ![s] = "loop"]
    /\ UNCHANGED <<r_stream, r_stop, r_q, r_fed, r_cap, r_main, r_widx,
                   r_after>>
    /\ UNCHANGED otherThanRun

\* run, line 137: one test of the loop condition.
RunTest(s) ==
    /\ r_pc[s] = "loop"
    /\ r_pc' = [r_pc EXCEPT
                  ![s] = IF LoopExits(r_stop[s], r_q[s]) THEN "stop" ELSE "body"]
    /\ UNCHANGED <<r_stream, r_task, r_stop, r_q, r_fed, r_cap, r_main,
                   r_widx, r_after>>
    /\ UNCHANGED otherThanRun

\* run, lines 138-151: one pass of the loop body: q.get waits at most
\* 0.05 s; the oldest block is taken off the queue, folded to mono, copied
\* into a PCM buffer and appended to self.request; on queue.Empty nothing
\* is done; the run loop is then given 0.01 s.
RunIter(s) ==
    /\ r_pc[s] = "body"
    /\ r_pc' = [r_pc EXCEPT ![s] = "loop"]
    /\ IF r_q[s] = <<>>
       THEN UNCHANGED <<r_q, r_fed>>
       ELSE /\ r_fed' = [r_fed EXCEPT
                           ![s] = Append(r_fed[s], QueueGet(r_q[s]).item)]
            /\ r_q' = [r_q EXCEPT ![s] = QueueGet(r_q[s]).rest]
    /\ r_after' = [r_after EXCEPT
                     ![s] = IF r_stop[s] THEN r_after[s] + 1 ELSE r_after[s]]
    /\ UNCHANGED <<r_stream, r_task, r_stop, r_cap, r_main, r_widx>>
    /\ UNCHANGED otherThanRun

\* main, lines 175-176: Ctrl-C ends the sleep loop; the shutdown starts
\* with the first worker.
RunInterrupt ==
    /\ r_main = "listening"
    /\ r_main' = "stop"
    /\ UNCHANGED <<r_pc, r_stream, r_task, r_stop, r_q, r_fed, r_cap, r_widx,
                   r_after>>
    /\ UNCHANGED otherThanRun

\* main, line 177, and stop(), lines 155-156: the stop event of the worker
\* at hand is set.
RunSetStop ==
    /\ r_main = "stop"
    /\ r_stop' = [r_stop EXCEPT ![DEVICES[r_widx]] = TRUE]
    /\ r_main' = "join"
    /\ UNCHANGED <<r_pc, r_stream, r_task, r_q, r_fed, r_cap, r_widx, r_after>>
    /\ UNCHANGED otherThanRun

\* run, lines 152-153: stream.stop_stream() and stream.close(); run
\* returns.
RunClose(s) ==
    /\ r_pc[s] = "stop"
    /\ r_stream' = [r_stream EXCEPT ![s] = "closed"]
    /\ r_pc' = [r_pc EXCEPT ![s] = "done"]
    /\ UNCHANGED <<r_task, r_stop, r_q, r_fed, r_cap, r_main, r_widx, r_after>>
    /\ UNCHANGED otherThanRun

\* main, line 178: w.join() returns once run() of the worker at hand has
\* returned; main goes on to the next worker or to line 179.
RunJoin ==
    /\ r_main = "join"
    /\ r_pc[DEVICES[r_widx]] = "done"
    /\ IF r_widx = Len(DEVICES)
       THEN r_main' = "joined" /\ UNCHANGED r_widx
       ELSE r_main' = "stop" /\ r_widx' = r_widx + 1
    /\ UNCHANGED <<r_pc, r_stream, r_task, r_stop, r_q, r_fed, r_cap, r_after>>
    /\ UNCHANGED otherThanRun

NextRun ==
    \/ \E s \in Speakers : RunOpen(s)
    \/ \E s \in Speakers : Callback(s)
    \/ \E s \in Speakers : RunTask(s)
    \/ \E s \in Speakers : RunTest(s)
    \/ \E s \in Speakers : RunIter(s)
    \/ RunInterrupt
    \/ RunSetStop
    \/ \E s \in Speakers : RunClose(s)
    \/ RunJoin

\* The worker threads and the main thread are scheduled again and again:
\* a step of run() or of main's shutdown that can be taken is taken.  No
\* such assumption is made about Ctrl-C or about the arrival of blocks.
RunFairness ==
    /\ \A s \in Speakers :
          /\ WF_vars(RunOpen(s))
          /\ WF_vars(RunTask(s))
          /\ WF_vars(RunTest(s))
          /\ WF_vars(RunIter(s))
          /\ WF_vars(RunClose(s))
    /\ WF_vars(RunSetStop)
    /\ WF_vars(RunJoin)

\* The window taken as int(CALIBRATION_SECONDS) whole seconds, as the
\* countdown of line 222 takes it.
WindowElapsedWholeSeconds == now - calib_start >= TicksPerSec

\* Line 175: time.time() - calib_start >= CALIBRATION_SECONDS.
WindowElapsed ==
    2 * (now - calib_start) >= CALIBRATION_HALF_SECONDS * TicksPerSec

InitTap ==
    /\ d_main = "locate"
    /\ now = 0
    /\ agg_nch = None
    /\ src_nch = None
    /\ samples_acc = [ch \in TapChannels |-> 0]
    /\ samples_cnt = 0
    /\ calibrated = FALSE
    /\ mic_ch = 2
    /\ bh_ch = <<0, 1>>
    /\ calib_start = 0
    /\ meter_timer = 0
    /\ last_rms_bh = <<>>
    /\ sleep_start = 0
    /\ alert_hist = <<>>
    /\ vu_last = <<>>
    /\ tap_fc = <<>>
    /\ req1 = <<>>
    /\ req2 = <<>>
    /\ req_lead = 0
    /\ d_engine = "none"
    /\ d_tap = FALSE
    /\ d_requests = {}
    /\ d_tasks = [r \in {1, 2} |-> 0]

\* The clock advances, up to a limit; it is counted from the reading of
\* line 154.
TickUntil(limit) ==
    /\ d_main \in {"install", "countdown"}
    /\ now < limit
    /\ now' = now + 1
    /\ UNCHANGED <<d_main, agg_nch, src_nch, samples_acc, samples_cnt,
                   calibrated, mic_ch, bh_ch, calib_start, meter_timer,
                   last_rms_bh, sleep_start, alert_hist,
                                                vu_last, tap_fc, req1, req2,
                                                req_lead>>
    /\ UNCHANGED otherThanTap

\* Lines 105-115: the first device whose name contains AGG_NAME is taken;
\* the program exits if there is none or it has fewer than 3 channels.
DLocate ==
    /\ d_main = "locate"
    /\ \E found \in BOOLEAN : \E nch \in 1..MaxChannels :
          IF found /\ nch >= MIN_CHANNELS
          THEN agg_nch' = nch /\ d_main' = "engine"
          ELSE agg_nch' = (IF found THEN nch ELSE None) /\ d_main' = "exit"
    /\ UNCHANGED <<now, src_nch, samples_acc, samples_cnt, calibrated,
                   mic_ch, bh_ch, calib_start, meter_timer, last_rms_bh,
                   sleep_start, alert_hist,
                                                vu_last, tap_fc, req1, req2,
                                                req_lead>>
    /\ UNCHANGED otherThanTap

\* Lines 120-127: the engine's input format is read; the program exits if
\* it has fewer than 3 channels.
DEngine ==
    /\ d_main = "engine"
    /\ \E nch \in 1..MaxChannels :
          /\ src_nch' = nch
          /\ d_main' = IF nch < MIN_CHANNELS THEN "exit" ELSE "recognizer"
    /\ UNCHANGED <<now, agg_nch, samples_acc, samples_cnt, calibrated,
                   mic_ch, bh_ch, calib_start, meter_timer, last_rms_bh,
                   sleep_start, alert_hist,
                                                vu_last, tap_fc, req1, req2,
                                                req_lead>>
    /\ d_engine' = "made"
    /\ UNCHANGED <<d_tap, d_requests, d_tasks>>
    /\ UNCHANGED otherThanDual

\* Lines 134-146: the program exits if the recognizer is unavailable;
\* otherwise both requests are made and their tasks started.
DRecognizer ==
    /\ d_main = "recognizer"
    /\ \E available \in BOOLEAN :
          IF available
          THEN /\ d_main' = "globals"
               /\ d_requests' = {1, 2}
               /\ d_tasks' = [r \in {1, 2} |-> d_tasks[r] + 1]
          ELSE /\ d_main' = "exit"
               /\ UNCHANGED <<d_requests, d_tasks>>
    /\ UNCHANGED <<d_engine, d_tap>>
    /\ UNCHANGED <<now, agg_nch, src_nch, samples_acc, samples_cnt,
                   calibrated, mic_ch, bh_ch, calib_start, meter_timer,
                   last_rms_bh, sleep_start, alert_hist,
                                                vu_last, tap_fc, req1, req2,
                                                req_lead>>
    /\ UNCHANGED otherThanDual

\* Lines 149-157: the calibration and VU meter variables are set.
DGlobals ==
    /\ d_main = "globals"
    /\ samples_acc' = [ch \in TapChannels |-> 0]
    /\ samples_cnt' = 0
    /\ calibrated' = FALSE
    /\ mic_ch' = 2
    /\ bh_ch' = <<0, 1>>
    /\ calib_start' = now
    /\ meter_timer' = now
    /\ last_rms_bh' = <<>>
    /\ d_main' = "install"
    /\ UNCHANGED <<now, agg_nch, src_nch, sleep_start, alert_hist,
                                                vu_last, tap_fc, req1, req2,
                                                req_lead>>
    /\ UNCHANGED otherThanTap

\* Lines 215-224: the tap is installed, the engine started and the
\* countdown, one sleep of a second, begun.
DInstall ==
    /\ d_main = "install"
    /\ sleep_start' = now
    /\ d_main' = "countdown"
    /\ UNCHANGED <<now, agg_nch, src_nch, samples_acc, samples_cnt,
                   calibrated, mic_ch, bh_ch, calib_start, meter_timer,
                   last_rms_bh, alert_hist,
                                                vu_last, tap_fc, req1, req2,
                                                req_lead>>
    /\ d_tap' = TRUE
    /\ d_engine' = "running"
    /\ UNCHANGED <<d_requests, d_tasks>>
    /\ UNCHANGED otherThanDual

\* Lines 224-227: the sleep has lasted at least a second; line 227 names
\* NSRunLoop.currentRunLoop().run without calling it, and the script ends.
DEnd ==
    /\ d_main = "countdown"
    /\ now - sleep_start >= TicksPerSec
    /\ d_main' = "ended"
    /\ UNCHANGED <<now, agg_nch, src_nch, samples_acc, samples_cnt,
                   calibrated, mic_ch, bh_ch, calib_start, meter_timer,
                   last_rms_bh, sleep_start, alert_hist,
                                                vu_last, tap_fc, req1, req2,
                                                req_lead>>
    /\ UNCHANGED otherThanTap

\* The silent run after a VU sample: the warnings printed for the latest
\* consecutive samples below the threshold, at most 2 * SILENCE_TIMEOUT.
SilentRun(hist, v, warned) ==
    IF v >= SILENCE_THRESH THEN <<>>
    ELSE IF Len(hist) < 2 * SILENCE_TIMEOUT THEN Append(hist, warned)
    ELSE hist

\* tap(buffer, when), lines 161-213, for the frame f3.
Tap(f3) ==
    /\ d_main = "countdown"
    /\ LET fc == FrameOf(f3, src_nch)
           n_frames == Len(fc[0])
       IN  IF n_frames = 0
           THEN UNCHANGED <<samples_acc, samples_cnt, calibrated, mic_ch,
                            bh_ch, meter_timer, last_rms_bh, alert_hist,
                                                vu_last, tap_fc, req1, req2,
                                                req_lead>>
           ELSE IF NeedsCalibration
           THEN LET acc == [ch \in TapChannels |->
                               samples_acc[ch] + Rms(fc[ch], n_frames)]
                    cnt == CountAfter(samples_cnt)
                IN  /\ WindowElapsed \/ cnt < MaxBlocks
                    /\ samples_acc' = acc
                    /\ samples_cnt' = cnt
                    /\ IF WindowElapsed
                       THEN LET avg == [ch \in TapChannels |->
                                           Quot(acc[ch], cnt)]
                                m == PyMax(avg)
                            IN  /\ mic_ch' = m
                                /\ bh_ch' = OtherChannels(m)
                                /\ calibrated' = TRUE
                       ELSE UNCHANGED <<mic_ch, bh_ch, calibrated>>
                    /\ UNCHANGED <<meter_timer, last_rms_bh, alert_hist,
                                                vu_last, tap_fc, req1, req2,
                                                req_lead>>
           ELSE LET bh_l == fc[bh_ch[1]]
                    bh_r == fc[bh_ch[2]]
                    buf2_data == Downmix(bh_l, bh_r, n_frames)
                    rms_bh == Rms(buf2_data, n_frames)
                IN  /\ tap_fc' = fc
                    /\ IF now - meter_timer >= TicksPerSec
                       THEN /\ last_rms_bh' = Watchdog(last_rms_bh, rms_bh)
                            /\ alert_hist' =
                                   SilentRun(alert_hist, rms_bh,
                                             Warns(last_rms_bh, rms_bh))
                            /\ vu_last' = <<rms_bh, Warns(last_rms_bh, rms_bh)>>
                            /\ meter_timer' = now
                       ELSE UNCHANGED <<last_rms_bh, alert_hist, meter_timer,
                                        vu_last>>
                    /\ req1' = Route(fc[mic_ch], buf2_data)[1]
                    /\ req2' = Route(fc[mic_ch], buf2_data)[2]
                    /\ req_lead' = req_lead + AppendsPerFrame[1]
                                            - AppendsPerFrame[2]
                    /\ UNCHANGED <<samples_acc, samples_cnt, calibrated,
                                   mic_ch, bh_ch>>
    /\ UNCHANGED <<d_main, now, agg_nch, src_nch, calib_start, sleep_start>>
    /\ UNCHANGED otherThanTap

NextTap ==
    \/ TickUntil(MaxClock)
    \/ DLocate
    \/ DEngine
    \/ DRecognizer
    \/ DGlobals
    \/ DInstall
    \/ DEnd
    \/ \E f3 \in Frames3 : Tap(f3)

\* ------------------------------------------------------------------------
\* The calibrated tap, followed from the moment calibration has finalized on
\* its first block (SpecWatch)
\* ------------------------------------------------------------------------
\* The first clock reading at which the calibration window has elapsed.
CalibTicks == (CALIBRATION_HALF_SECONDS * TicksPerSec + 1) \div 2

InitWatch ==
    /\ d_main = "countdown"
    /\ now = CalibTicks
    /\ agg_nch = MIN_CHANNELS
    /\ src_nch \in MIN_CHANNELS..MaxChannels
    /\ \E loud \in TapChannels :
          samples_acc = [ch \in TapChannels |-> IF ch = loud THEN 4 ELSE 0]
    /\ samples_cnt = 1
    /\ calibrated = TRUE
    /\ mic_ch = PyMax([ch \in TapChannels |-> Quot(samples_acc[ch], 1)])
    /\ bh_ch = OtherChannels(mic_ch)
    /\ calib_start = 0
    /\ meter_timer = 0
    /\ last_rms_bh = <<>>
    /\ sleep_start = 0
    /\ alert_hist = <<>>
    /\ vu_last = <<>>
    /\ tap_fc = <<>>
    /\ req1 = <<>>
    /\ req2 = <<>>
    /\ req_lead = 0
    /\ InitLog
    /\ InitLt
    /\ InitLoc
    /\ InitH
    /\ InitRun
    /\ d_engine = "running"
    /\ d_tap = TRUE
    /\ d_requests = {1, 2}
    /\ d_tasks = [r \in {1, 2} |-> 1]

\* The frames delivered while the watchdog is followed: at most one sample
\* a channel.
WatchFrames == {f3 \in Frames3 : Len(f3[0]) <= 1}

NextWatch ==
    \/ TickUntil(MaxWatchClock)
    \/ DEnd
    \/ \E f3 \in WatchFrames : Tap(f3)

\* ------------------------------------------------------------------------
\* The tap on a 3-channel device fed the frames of a session in which only
\* channel 0 is loud during calibration (SpecScenario)
\* ------------------------------------------------------------------------
\* Frames with channel 0 at RMS 1.0 and channels 1 and 2 at 0.0.
LoudMicFrames ==
    {[c \in TapChannels |-> IF c = 0 THEN <<10000>> ELSE <<0>>],
     [c \in TapChannels |-> IF c = 0 THEN <<10000, -10000>> ELSE <<0, 0>>]}

\* The frame with channel 0 = [0.2, 0.4], channel 1 = [0.0, 0.2] and
\* channel 2 = [0.4, 0.6].
SpeechFrame ==
    [c \in TapChannels |->
        IF c = 0 THEN <<2000, 4000>>
        ELSE IF c = 1 THEN <<0, 2000>> ELSE <<4000, 6000>>]

ScenarioFrames == LoudMicFrames \cup {SpeechFrame}

\* The program as DInstall leaves it on a 3-channel device when no time
\* has passed since it started.
InitScenario ==
    /\ d_main = "countdown"
    /\ now = 0
    /\ agg_nch = MIN_CHANNELS
    /\ src_nch = MIN_CHANNELS
    /\ samples_acc = [ch \in TapChannels |-> 0]
    /\ samples_cnt = 0
    /\ calibrated = FALSE
    /\ mic_ch = 2
    /\ bh_ch = <<0, 1>>
    /\ calib_start = 0
    /\ meter_timer = 0
    /\ last_rms_bh = <<>>
    /\ sleep_start = 0
    /\ alert_hist = <<>>
    /\ vu_last = <<>>
    /\ tap_fc = <<>>
    /\ req1 = <<>>
    /\ req2 = <<>>
    /\ req_lead = 0
    /\ InitLog
    /\ InitLt
    /\ InitLoc
    /\ InitH
    /\ InitRun
    /\ d_engine = "running"
    /\ d_tap = TRUE
    /\ d_requests = {1, 2}
    /\ d_tasks = [r \in {1, 2} |-> 1]

NextScenario ==
    \/ TickUntil(MaxClock)
    \/ DEnd
    \/ \E f3 \in ScenarioFrames : Tap(f3)

\* ------------------------------------------------------------------------
\* flush() called twice in a row by one caller, on any log the program can
\* hold and over any earlier file content (SpecFlush)
\* ------------------------------------------------------------------------
Entries == [ts : TimeValues, who : Speakers, txt : Texts]

\* The values conversation takes: sorted, but for a last entry that has
\* been appended and not yet sorted into place.
Logs ==
    {c \in UNION {[1..n -> Entries] : n \in 0..MaxLog} :
        IsSortedByTs(SubSeq(c, 1, Len(c) - 1))}

InitFlush ==
    /\ conversation \in Logs
    /\ \E c \in Logs : Len(c) < MaxLog /\ transcript = Serialize(c)
    /\ conversation_lock = None
    /\ cbpc = [s \in Speakers |-> "idle"]
    /\ cbtxt = [s \in Speakers |-> None]
    /\ fpc = [p \in Callers |-> "idle"]
    /\ fbuf = [p \in Callers |-> <<>>]
    /\ mainpc = "flush"
    /\ widx = Len(DEVICES) + 1
    /\ wpc = [s \in Speakers |-> "done"]
    /\ stop_evt = [s \in Speakers |-> TRUE]
    /\ stream = [s \in Speakers |-> "closed"]
    /\ task = [s \in Speakers |-> TRUE]
    /\ audio = "terminated"
    /\ inflight = {}
    /\ prev_out = <<>>
    /\ cb_done = Len(conversation)
    /\ cb_bad = FALSE
    /\ InitLt
    /\ InitTap
    /\ InitLoc
    /\ InitH
    /\ InitRun

\* flush() has returned and is called once more, nothing else running.
FlushAgain ==
    /\ mainpc = "print"
    /\ mainpc' = "flush"
    /\ prev_out' = <<transcript>>
    /\ UNCHANGED <<conversation, conversation_lock, transcript, cbpc, cbtxt,
                   fpc, fbuf, widx, wpc, stop_evt, stream, task, audio,
                   inflight, cb_done, cb_bad>>
    /\ UNCHANGED otherThanLog

NextFlush ==
    \/ FlushOpen("main")
    \/ FlushWrite("main")
    \/ FlushClose("main")
    \/ FlushAgain

\* ------------------------------------------------------------------------
\* Claims about the conversation log (live_transcribe_3.py)
\* ------------------------------------------------------------------------
\* A caller is inside the log's critical work: between the append and the
\* release in _result, or anywhere inside flush().
InLog(p) ==
    \/ fpc[p] # "idle"
    \/ p \in Speakers /\ cbpc[p] \in {"appended", "sorted", "flushed"}

\* No append and no flush is under way.
LogQuiescent ==
    /\ conversation_lock = None
    /\ \A p \in Callers : fpc[p] = "idle"

StampSeconds(st) == st[1] * 3600 + st[2] * 60 + st[3]

TranscriptSorted ==
    \A i \in 1..Len(transcript) : \A j \in 1..Len(transcript) :
        i < j => StampSeconds(transcript[i].stamp)
                     <= StampSeconds(transcript[j].stamp)

FileLines == {transcript[i] : i \in 1..Len(transcript)}

\* C1: whenever every append has completed (no append or flush is under
\* way), the in-memory log and the transcript file are both sorted
\* ascending by timestamp.
C1_LogSortedAfterAppend ==
    LogQuiescent => IsSortedByTs(conversation) /\ TranscriptSorted

\* C2: at most one caller at a time is inside append/sort/flush, counting
\* the result callbacks of both speakers and the shutdown flush of main.
C2_MutualExclusion ==
    Cardinality({p \in Callers : InLog(p)}) <= 1

\* C3: once main has made its final flush and returned, the transcript
\* file holds every entry that was ever appended, and no callback that had
\* arrived when the shutdown began is left unincorporated.
C3_NoSegmentLost ==
    mainpc = "done" =>
        /\ \A i \in 1..Len(conversation) : Line(conversation[i]) \in FileLines
        /\ inflight = {}

\* C5: whenever the log lock is free, the transcript file is exactly the
\* serialisation of the whole in-memory log, line by line in log order.
C5_AppendImpliesFlush ==
    conversation_lock = None => transcript = Serialize(conversation)

\* C6: a flush() that follows a flush() with no append between them leaves
\* the file content the first one left, and no step of flush() changes the
\* in-memory log.
C6_FlushIdempotent ==
    /\ [](mainpc = "print" /\ prev_out # <<>> => transcript = prev_out[1])
    /\ [][conversation' = conversation]_conversation

\* C6 witness: a second flush() of a non-empty log has returned.
C6_Witness ==
    /\ mainpc = "print"
    /\ prev_out # <<>>
    /\ Len(conversation) = MaxLog
    /\ transcript = Serialize(conversation)

\* ------------------------------------------------------------------------
\* Calibration and watchdog of dual_live_transcribe.py
\* ------------------------------------------------------------------------
\* The channel indices of a tuple of channels.
ChannelSet(t) == {t[i] : i \in 1..Len(t)}

\* avg of line 176, for the accumulators as they stand.
Avg == [ch \in TapChannels |-> Quot(samples_acc[ch], samples_cnt)]

\* The calibrator's phase: 0 idle, 1 accumulating, 2 finalized.
Phase == IF calibrated THEN 2 ELSE IF samples_cnt > 0 THEN 1 ELSE 0

\* The number of warnings among the first k samples of a silent run.
Alerts(hist, k) == Cardinality({i \in 1..k : hist[i]})

\* C7: once calibration has finalized, the primary channel and the
\* secondary channels are disjoint, the secondary set is not empty, and
\* together they are all the channel indices of the device.
C7_Partition ==
    calibrated =>
        /\ mic_ch \notin ChannelSet(bh_ch)
        /\ ChannelSet(bh_ch) # {}
        /\ {mic_ch} \cup ChannelSet(bh_ch) = 0..(src_nch - 1)

\* C8: the primary channel chosen at finalization has the largest
\* accumulated average and is the lowest index that has it; so it is a
\* function of the RMS values accumulated, the first channel when all
\* averages are equal.
C8_CalibrationArgmax ==
    calibrated =>
        /\ \A c \in TapChannels : QuotGE(Avg[mic_ch], Avg[c])
        /\ \A c \in TapChannels : c < mic_ch => QuotGT(Avg[mic_ch], Avg[c])
        /\ bh_ch = OtherChannels(mic_ch)

\* C8 witness: calibration finalized over two blocks with the two later
\* channels tied above the first, and the lower of the two was chosen.
C8_Witness ==
    /\ calibrated
    /\ samples_cnt = MaxBlocks
    /\ samples_acc[1] = samples_acc[2]
    /\ samples_acc[1] > samples_acc[0]
    /\ mic_ch = 1

\* C9: the calibrator never moves back a phase; once the calibrated flag is
\* set no step clears it or changes the channel mapping, and while the tap
\* is installed the mapping changes only on the step that sets the flag.
C9_CalibrationOneShot ==
    [][/\ Phase' >= Phase
       /\ calibrated => /\ calibrated'
                        /\ mic_ch' = mic_ch
                        /\ bh_ch' = bh_ch
       /\ (d_main = "countdown" /\ <<mic_ch, bh_ch>>' # <<mic_ch, bh_ch>>)
             => ~calibrated /\ calibrated']_vars

\* C9 witness: calibration chose a mapping other than the initial one, and
\* a frame was metered after it.
C9_Witness ==
    /\ calibrated
    /\ mic_ch # 2
    /\ meter_timer > calib_start

\* C10: of the first N VU samples of a run of samples below the threshold
\* exactly one, the N-th, prints the warning, and of the first 2N exactly
\* two, the N-th and the 2N-th (N = SILENCE_TIMEOUT).
C10_WatchdogDebounce ==
    /\ Len(alert_hist) >= SILENCE_TIMEOUT =>
          /\ Alerts(alert_hist, SILENCE_TIMEOUT) = 1
          /\ alert_hist[SILENCE_TIMEOUT]
    /\ Len(alert_hist) >= 2 * SILENCE_TIMEOUT =>
          /\ Alerts(alert_hist, 2 * SILENCE_TIMEOUT) = 2
          /\ alert_hist[2 * SILENCE_TIMEOUT]
    /\ Len(alert_hist) < SILENCE_TIMEOUT =>
          Alerts(alert_hist, Len(alert_hist)) = 0

\* C10 witness: 2N consecutive VU samples below the threshold were metered.
C10_Witness ==
    /\ Len(alert_hist) = 2 * SILENCE_TIMEOUT
    /\ last_rms_bh = <<>>

\* C11: the window never holds more than SILENCE_TIMEOUT samples; a VU
\* sample prints the warning exactly when the window with that sample
\* appended is full and every sample in it is below SILENCE_THRESH; the
\* window is then empty, and otherwise it is the window with the sample
\* appended. So a window holding a sample at or above the threshold prints
\* no warning.
C11_WatchdogAlertCondition ==
    [][/\ Len(last_rms_bh') <= SILENCE_TIMEOUT
       /\ (d_main = "countdown" /\ meter_timer' # meter_timer) =>
             LET v == vu_last'[1]
                 warned == vu_last'[2]
                 w == IF Len(last_rms_bh) < SILENCE_TIMEOUT
                      THEN Append(last_rms_bh, v)
                      ELSE Append(Tail(last_rms_bh), v)
                 silent == /\ Len(w) = SILENCE_TIMEOUT
                           /\ \A i \in 1..Len(w) : w[i] < SILENCE_THRESH
             IN  /\ warned <=> silent
                 /\ last_rms_bh' = IF warned THEN <<>> ELSE w
                 /\ (\E i \in 1..Len(w) : w[i] >= SILENCE_THRESH) => ~warned
      ]_vars

\* C11 witness: the third sample of a silent run printed the warning and
\* the window is empty again.
C11_Witness ==
    /\ vu_last # <<>>
    /\ vu_last[2]
    /\ last_rms_bh = <<>>
    /\ Len(alert_hist) = SILENCE_TIMEOUT

\* The sample values and the frame counts the downmix functions are tried
\* on.
SampleValues == {-4, 0, 4}
FrameCounts == 0..2

\* C12: after a frame in which both channels of Person 2's set hold one
\* value v at every sample has been routed, the buffer appended for
\* Person 2 holds v at every sample; avg_f32 and _downmix_to_mono likewise
\* give v at every sample for channels that all hold v.
C12_DownmixIdentity ==
    /\ \A v \in SampleValues :
          (/\ tap_fc # <<>>
           /\ \A i \in 1..Len(bh_ch) : \A k \in 1..Len(tap_fc[bh_ch[i]]) :
                 tap_fc[bh_ch[i]][k] = v)
          => /\ Len(req2) = Len(tap_fc[bh_ch[1]])
             /\ \A k \in 1..Len(req2) : req2[k] = v
    /\ \A v \in SampleValues : \A n \in FrameCounts :
          LET c == [k \in 1..n |-> v]
          IN  AvgF32(c, c, n) = c
    /\ \A v \in SampleValues : \A n \in FrameCounts :
          \A inch \in 1..MaxChannels :
             LET mono == DownmixToMono([k \in 1..(n * inch) |-> v], inch)
             IN  /\ Len(mono) = n
                 /\ \A k \in 1..n : mono[k][1] = v * mono[k][2]

\* C12 witness: a frame whose Person 2 channels both hold 0.0004 and whose
\* Person 1 channel is silent has been routed.
C12_Witness ==
    /\ calibrated
    /\ tap_fc # <<>>
    /\ tap_fc[bh_ch[1]] = <<4>>
    /\ tap_fc[bh_ch[2]] = <<4>>
    /\ tap_fc[mic_ch] = <<0>>
    /\ req2 = <<4>>

\* C13: on a 3-channel device, when every block accumulated for
\* calibration had RMS 1.0 on channel 0 and 0.0 on channels 1 and 2,
\* calibration gives Person 1 channel 0 and Person 2 channels 1 and 2; the
\* frame [0.2, 0.4], [0.0, 0.2], [0.4, 0.6] routed after it gives Person 1
\* the buffer [0.2, 0.4] and Person 2 the buffer [0.2, 0.4].
C13_Scenario ==
    (/\ calibrated
     /\ src_nch = 3
     /\ samples_acc = [ch \in TapChannels |->
                          IF ch = 0 THEN 10000 * samples_cnt ELSE 0])
    => /\ mic_ch = 0
       /\ bh_ch = <<1, 2>>
       /\ tap_fc = SpeechFrame =>
             /\ req1 = <<2000, 4000>>
             /\ req2 = <<2000, 4000>>

\* C13 witness: calibration ran over two loud-microphone blocks and the
\* speech frame was routed after it.
C13_Witness ==
    /\ calibrated
    /\ samples_cnt = 2
    /\ samples_acc[0] = 20000
    /\ samples_acc[1] = 0
    /\ samples_acc[2] = 0
    /\ tap_fc = SpeechFrame
    /\ req2 = <<2000, 4000>>

\* The sum at sample k of the first i channels of the tuple chans.
RECURSIVE ChannelSum(_, _, _, _)
ChannelSum(fc, chans, k, i) ==
    IF i = 0 THEN 0 ELSE ChannelSum(fc, chans, k, i - 1) + fc[chans[i]][k]

\* The interleaved blocks _downmix_to_mono is tried on: up to MaxRawLen
\* samples.
MaxRawLen == 4
RawBlocks == UNION {[1..n -> SampleValues] : n \in 0..MaxRawLen}

\* _downmix_to_mono returns a one-channel block as it is, and for inch
\* channels one sample a whole frame, the mean of the frame's inch samples.
DownmixToMonoShape ==
    \A raw \in RawBlocks : \A inch \in 1..MaxChannels :
       LET mono == DownmixToMono(raw, inch)
       IN  /\ Len(mono) = Len(raw) \div inch
           /\ inch = 1 => \A k \in 1..Len(raw) :
                             mono[k][1] = raw[k] * mono[k][2]
           /\ \A k \in 1..Len(mono) :
                 mono[k][1] * inch =
                    mono[k][2] * ChannelSum([c \in 1..inch |->
                                                [j \in 1..Len(mono) |->
                                                    raw[(j - 1) * inch + c]]],
                                            [c \in 1..inch |-> c], k, inch)

\* C14: after a frame has been routed, Person 1, who has one channel, was
\* given a copy of that channel; Person 2 was given at each sample the mean
\* of the channels of their set; and both buffers have as many samples as
\* the frame. _downmix_to_mono has the same shape.
C14_RoutingShape ==
    /\ tap_fc # <<>> =>
          /\ Len(req1) = Len(tap_fc[0])
          /\ Len(req2) = Len(tap_fc[0])
          /\ req1 = tap_fc[mic_ch]
          /\ \A k \in 1..Len(req2) :
                Len(bh_ch) * req2[k] =
                   ChannelSum(tap_fc, bh_ch, k, Len(bh_ch))
    /\ DownmixToMonoShape

\* C14 witness: a two-sample frame in which the channels of Person 2
\* differ has been routed.
C14_Witness ==
    /\ calibrated
    /\ tap_fc # <<>>
    /\ tap_fc[bh_ch[1]] = <<4, -4>>
    /\ tap_fc[bh_ch[2]] = <<0, 0>>
    /\ tap_fc[mic_ch] = <<4, -4>>
    /\ req1 = <<4, -4>>
    /\ req2 = <<2, -2>>

\* The result the device search is to give for a minimum channel count:
\* the first device with input channels whose name contains the name sought,
\* a failure if there is none or if that device has fewer channels than the
\* minimum.
LocatorResult(devs, min) ==
    LET i == FirstIndex([k \in 1..Len(devs) |->
                           devs[k].nch > 0 /\ devs[k].has])
    IN  IF i = 0 THEN Failed("not found")
        ELSE IF devs[i].nch < min THEN Failed("too few channels")
        ELSE Found(i, devs)

\* C15: the device search of dual_live_transcribe.py comes to the first
\* enumerated device with input channels whose name contains AGG_NAME, and
\* fails when there is none or when that device has fewer than 3 channels.
C15_LocatorResult ==
    located["dual"] # Unsearched =>
       LET want == LocatorResult(devices, MIN_CHANNELS)
       IN  IF want.status = "found" THEN located["dual"] = want
           ELSE located["dual"].status # "found"

\* The programs before their searches, with any devices to enumerate.
InitLocate ==
    /\ devices \in DeviceLists
    /\ located = [l \in Locators |-> Unsearched]
    /\ InitLog
    /\ InitLt
    /\ InitTap
    /\ InitH
    /\ InitRun

\* One of the scripts is running with the recognition task of each of its
\* speakers started; nothing has been written or printed.
InitHandlers ==
    /\ h_prog \in Handlers
    /\ h_file = [who \in {1, 2} |-> ""]
    /\ h_printed = <<>>
    /\ h_tasks = [who \in {1, 2} |-> IF who \in HandlerSpeakers(h_prog)
                                      THEN 1 ELSE 0]
    /\ h_last = NoCall
    /\ InitLog
    /\ InitLt
    /\ InitTap
    /\ InitLoc
    /\ InitRun

\* ------------------------------------------------------------------------
\* Startup of live_transcribe_3.py and of dual_live_transcribe.py
\* (SpecStartup)
\* ------------------------------------------------------------------------
NextStartup ==
    \/ MainFind
    \/ MainStart
    \/ \E s \in Speakers : WOpen(s)
    \/ \E s \in Speakers : WTask(s)
    \/ DLocate
    \/ DEngine
    \/ DRecognizer
    \/ DGlobals
    \/ DInstall

\* C16: when live_transcribe_3.py has exited on a device that was not
\* found, no worker has been started, no capture stream opened and no
\* recognition task started, for any device; when dual_live_transcribe.py
\* has exited during startup, its engine has not been started, no tap is
\* installed, and no request or recognition task has been made.
C16_FatalDeviceErrors ==
    /\ mainpc = "exit" =>
          \A s \in Speakers :
             /\ wpc[s] = "new"
             /\ stream[s] = "none"
             /\ ~task[s]
    /\ d_main = "exit" =>
          /\ d_engine # "running"
          /\ ~d_tap
          /\ d_requests = {}
          /\ \A r \in {1, 2} : d_tasks[r] = 0
          /\ tap_fc = <<>>

\* C16 witness: live_transcribe_3.py has exited on a missing device, and
\* dual_live_transcribe.py on an input format of fewer than 3 channels
\* after its device was found.
C16_Witness ==
    /\ mainpc = "exit"
    /\ d_main = "exit"
    /\ d_engine = "made"
    /\ src_nch \in 1..(MIN_CHANNELS - 1)

\* C17: no exception crosses the capture/feed boundary: a step of the feed
\* path that fails for one buffer drops that buffer only, so while the
\* session runs with the capture stream active the feed thread is still in
\* its loop and later buffers are fed.
C17_FeedSurvivesFailure ==
    (lt_main = "run" /\ lt_stream = "active") => FeedThreadRunning

\* C18: a callback that carries only the "no speech detected" error is
\* suppressed by the handlers of live_transcribe_2.py and
\* dual_live_transcribe.py: nothing is printed and nothing is written for
\* it, and no task is made or lost.
C18_NoSpeechSuppressed ==
    [][(/\ h_prog \in {"lt2", "dual"}
        /\ h_last'.res = None
        /\ h_last'.err = <<NO_SPEECH>>)
       => /\ h_printed' = h_printed
          /\ h_file' = h_file
          /\ h_tasks' = h_tasks]_vars

\* C19: a callback that carries only an error other than "no speech" is
\* logged by _result of live_transcribe_3.py, mk_handler of
\* live_transcribe_2.py and on_result of live_transcribe.py: one line is
\* printed for it, the transcript is left alone and no request or task is
\* made.
C19_OtherErrorLogged ==
    [][(/\ h_prog \in {"lt3", "lt2", "lt"}
        /\ h_last'.res = None
        /\ h_last'.err \in Errors \ {<<NO_SPEECH>>})
       => /\ Len(h_printed') = Len(h_printed) + 1
          /\ h_file' = h_file
          /\ h_tasks' = h_tasks]_vars

\* C20: each speaker has one request and one recognition task, made once
\* before the tap is installed; every buffer routed for Person 1 (the copy
\* of the microphone channel) is appended to request 1 and every buffer
\* routed for Person 2 (the downmix of the other two channels) to request
\* 2, never the other way round.
C20_OneRequestPerSpeaker ==
    /\ \A r \in {1, 2} : /\ d_tasks[r] <= 1
                         /\ d_tasks[r] = 1 <=> r \in d_requests
    /\ d_tap => d_requests = {1, 2}
    /\ tap_fc # <<>> =>
          /\ d_tap
          /\ req1 = tap_fc[mic_ch]
          /\ req2 = Downmix(tap_fc[bh_ch[1]], tap_fc[bh_ch[2]],
                            Len(tap_fc[0]))

\* C20 witness: with one task on each of the two requests, a frame has been
\* routed whose Person 1 buffer differs from its Person 2 buffer.
C20_Witness ==
    /\ d_requests = {1, 2}
    /\ \A r \in {1, 2} : d_tasks[r] = 1
    /\ tap_fc # <<>>
    /\ req1 # req2
    /\ req1 = tap_fc[mic_ch]

\* C21: the speakers are independent and no result is waited for: the
\* entries of a speaker grow only in a step of that speaker's own callback,
\* so a session that never calls back adds none; a callback of the other
\* session that has passed the error check runs to its end (entry appended,
\* log flushed) whatever the first session does, and the log lock, once
\* taken, is released, as long as the process lives.
C21_SpeakersIndependent ==
    /\ [][\A s \in Speakers :
            EntriesOf(conversation', s) # EntriesOf(conversation, s)
               => cbpc[s] = "called" /\ cbpc'[s] = "appended"]_vars
    /\ \A s \in Speakers :
          (cbpc[s] = "called") ~>
             (\/ /\ cbpc[s] = "flushed"
                 /\ \E i \in 1..Len(conversation) : conversation[i].who = s
              \/ ~ProcessAlive)
    /\ (conversation_lock # None) ~>
          (conversation_lock = None \/ ~ProcessAlive)

\* C21 witness: Person 2 has no entry and no callback running, while
\* MaxLog results of Person 1 have been appended and flushed and the lock
\* is free.
C21_Witness ==
    /\ Len(conversation) = MaxLog
    /\ \A i \in 1..Len(conversation) : conversation[i].who = "Person 1"
    /\ transcript = Serialize(conversation)
    /\ conversation_lock = None
    /\ \A s \in Speakers : cbpc[s] = "idle"
    /\ mainpc = "listening"

Rearrangements(n) ==
    {f \in [1..n -> 1..n] : \A i \in 1..n : \A j \in 1..n : f[i] = f[j] => i = j}

\* out is conv put in ascending order of timestamp with the entries of
\* one timestamp left in the order they have in conv.
StablySorted(conv, out) ==
    /\ Len(out) = Len(conv)
    /\ \E f \in Rearrangements(Len(conv)) :
          /\ \A i \in 1..Len(conv) : out[i] = conv[f[i]]
          /\ \A i \in 1..Len(conv) : \A j \in 1..Len(conv) :
                i < j => \/ conv[f[i]].ts < conv[f[j]].ts
                         \/ conv[f[i]].ts = conv[f[j]].ts /\ f[i] < f[j]

\* The lists the sort is tried on: up to MaxLog + 1 entries, each marked
\* with its place in the list so that no two are equal.
MarkedLists ==
    UNION {{[i \in 1..n |-> [ts |-> tss[i], id |-> i]] :
               tss \in [1..n -> TimeValues]} : n \in 0..(MaxLog + 1)}

\* The sort puts every marked list in ascending order of timestamp and
\* leaves entries of one timestamp in ascending order of their marks.
SortByTsStable ==
    \A conv \in MarkedLists :
       LET out == SortByTs(conv)
       IN  /\ StablySorted(conv, out)
           /\ \A i \in 1..Len(out) : \A j \in 1..Len(out) :
                 (i < j /\ out[i].ts = out[j].ts) => out[i].id < out[j].id

\* C23: the sort of line 121 is stable: every step in which a callback
\* sorts leaves the log in ascending order of timestamp with the entries of
\* one timestamp in the order they had, which is the order in which they
\* were appended; so a new entry goes behind the older entries of its
\* timestamp, and later appends never reorder them.
C23_StableOrder ==
    [][\A s \in Speakers :
          (cbpc[s] = "appended" /\ cbpc'[s] = "sorted")
             => /\ StablySorted(conversation, conversation')
                /\ SortByTsStable]_vars

\* C23 witness: Person 1 has just sorted the log after appending an entry
\* with the timestamp of the entry Person 2 had appended before; Person 2's
\* entry is still first.
C23_Witness ==
    /\ cbpc["Person 1"] = "sorted"
    /\ cbpc["Person 2"] = "idle"
    /\ Len(conversation) = 2
    /\ conversation[1].ts = conversation[2].ts
    /\ conversation[1].who = "Person 2"
    /\ conversation[2].who = "Person 1"

\* C24: the accumulator has one sum, at first zero, for every channel of
\* the device; each frame accumulated adds the RMS of every device channel
\* to that channel's sum once and adds one to the block count, so that the
\* block count is the number of frames accumulated.
C24_Accumulation ==
    [][/\ (d_main = "globals" /\ d_main' = "install") =>
             /\ DOMAIN samples_acc' = 0..(src_nch - 1)
             /\ \A ch \in DOMAIN samples_acc' : samples_acc'[ch] = 0
             /\ samples_cnt' = 0
       /\ samples_cnt' # samples_cnt =>
             /\ samples_cnt' = samples_cnt + 1
             /\ DOMAIN samples_acc' = 0..(src_nch - 1)
             /\ \E f3 \in Frames3 :
                   /\ Len(f3[0]) > 0
                   /\ \A ch \in 0..(src_nch - 1) :
                         samples_acc'[ch] =
                            samples_acc[ch]
                               + Rms(FrameOf(f3, src_nch)[ch], Len(f3[0]))]_vars

\* C25: the start time is the clock reading at which the accumulator is
\* set up, and it is not changed afterwards; calibration finalizes only in
\* a step taken when CALIBRATION_SECONDS or more have passed since that
\* reading, and the first frame accumulated at such a time finalizes it.
C25_CalibrationTiming ==
    [][/\ (d_main = "globals" /\ d_main' = "install") => calib_start' = now'
       /\ d_main \in {"install", "countdown"} => calib_start' = calib_start
       /\ (~calibrated /\ calibrated') =>
             /\ 2 * (now - calib_start) >= CALIBRATION_HALF_SECONDS * TicksPerSec
             /\ samples_cnt' = samples_cnt + 1
       /\ (/\ samples_cnt' # samples_cnt
           /\ 2 * (now - calib_start) >= CALIBRATION_HALF_SECONDS * TicksPerSec)
             => calibrated']_vars

\* C25 witness: a frame was accumulated before the window had elapsed
\* without finalizing, and a later frame finalized the calibration.
C25_Witness ==
    /\ calibrated
    /\ samples_cnt = 2
    /\ 2 * (now - calib_start) = CALIBRATION_HALF_SECONDS * TicksPerSec
    /\ tap_fc = <<>>

\* C26: no frame is routed before calibration is final: while calibrated
\* is false no buffer has been appended to either request, and a step that
\* appends one starts with calibrated already true, so the frame that
\* finalizes the calibration is not routed and the initial mapping
\* mic_ch = 2, bh_ch = (0, 1) routes nothing.
C26_NoRoutingBeforeCalibration ==
    [][/\ ~calibrated' => tap_fc' = <<>> /\ req1' = <<>> /\ req2' = <<>>
       /\ <<tap_fc, req1, req2, req_lead>>' # <<tap_fc, req1, req2, req_lead>>
             => /\ calibrated
                /\ <<mic_ch, bh_ch>>' = <<mic_ch, bh_ch>>
       /\ (~calibrated /\ calibrated')
             => <<tap_fc, req1, req2, req_lead>>' = <<tap_fc, req1, req2, req_lead>>]_vars

\* C26 witness: the first frame accumulated finalized the calibration with
\* a mapping other than the initial one, and a later frame has been routed.
C26_Witness ==
    /\ calibrated
    /\ samples_cnt = 1
    /\ mic_ch = 0
    /\ tap_fc # <<>>
    /\ Len(req1) = 2

\* The frame of length 0.
EmptyFrame == [c \in TapChannels |-> <<>>]

\* C27: once calibrated, a call of tap with a non-empty frame appends the
\* Person 1 buffer of that frame to req1 and the Person 2 buffer of that
\* frame to req2, one each, so the two requests have always been given the
\* same number of buffers and their last buffers come from the same, latest
\* frame; a call with an empty frame changes nothing.
C27_EachFrameFedOnce ==
    [][/\ req_lead' = 0
       /\ \A f3 \in WatchFrames :
             (calibrated /\ f3 # EmptyFrame /\ Tap(f3)) =>
                LET fc == FrameOf(f3, src_nch)
                IN  /\ tap_fc' = fc
                    /\ req1' = fc[mic_ch]
                    /\ req2' = Downmix(fc[bh_ch[1]], fc[bh_ch[2]], Len(fc[0]))
       /\ Tap(EmptyFrame) => vars' = vars]_vars

\* C27 witness: two different frames have been routed one after the other;
\* the requests hold the buffers of the second.
C27_Witness ==
    /\ calibrated
    /\ tap_fc # <<>>
    /\ req_lead = 0
    /\ req1 = <<0>>
    /\ req2 = <<2>>
    /\ Len(last_rms_bh) = 2
    /\ last_rms_bh[1] # last_rms_bh[2]

\* C28: calibration never divides by zero: the block count is raised
\* before the averages are taken, so whenever calibration has finalized
\* the divisor samples_cnt of line 176 was at least 1; an empty frame
\* neither counts nor finalizes.
C28_NoDivisionByZero ==
    [][/\ (~calibrated /\ calibrated') => samples_cnt' >= 1
       /\ calibrated' => samples_cnt' >= 1
       /\ Tap(EmptyFrame) => (samples_cnt' = samples_cnt
                                /\ calibrated' = calibrated)]_vars

\* C28 witness: the first frame arrived when the window had already
\* elapsed; calibration finalized on that one block.
C28_Witness ==
    /\ calibrated
    /\ samples_cnt = 1
    /\ 2 * (now - calib_start) > CALIBRATION_HALF_SECONDS * TicksPerSec
    /\ meter_timer = calib_start
    /\ tap_fc = <<>>

\* The entries of a list, each with the number of times it occurs.
EntryBag(conv) ==
    [e \in {conv[i] : i \in 1..Len(conv)} |->
        Cardinality({i \in 1..Len(conv) : conv[i] = e})]

\* The lines a flush has written or left in the file.
LinesOf(lines) == {lines[i] : i \in 1..Len(lines)}

\* C29: the log only grows: a step either leaves the entries of the log
\* as they are, in some order, or adds one entry, and only a callback
\* passing from its error check to its append adds one; the number of
\* entries is the number of callbacks that have appended and returned plus
\* those still between append and return; every flush writes a line for
\* every entry of the log, and a flush that returns has written every
\* line that the flushes which returned before it left in the file.
C29_LogOnlyGrows ==
    [][/\ \/ EntryBag(conversation') = EntryBag(conversation)
          \/ \E s \in Speakers :
                /\ cbpc[s] = "called" /\ cbpc'[s] = "appended"
                /\ \E t \in TimeValues :
                      EntryBag(conversation') =
                         EntryBag(Append(conversation,
                                         [ts |-> t, who |-> s,
                                          txt |-> cbtxt[s]]))
       /\ Len(conversation') =
             cb_done' + Cardinality({s \in Speakers :
                            cbpc'[s] \in {"appended", "sorted", "flushed"}})
       /\ \A p \in Callers :
             (fpc[p] = "open" /\ fpc'[p] = "written") =>
                fbuf'[p] = Serialize(conversation)
       /\ \A p \in Callers :
             (fpc[p] = "written" /\ fpc'[p] = "idle") =>
                LinesOf(transcript) \subseteq LinesOf(fbuf[p])]_vars

\* The blocks 1..n in the order they were delivered.
Delivered(n) == [i \in 1..n |-> i]

\* C30: for each worker, the blocks appended to its request followed by
\* the blocks still on its queue are the blocks its capture callback
\* delivered, in the order of delivery, so that blocks are fed in that
\* order and none twice; no block is appended before the worker's
\* recognition task is started; and the capture callback never blocks:
\* while the stream is active it can put a block whatever the queue holds.
C30_QueuedFeedOrder ==
    \A s \in Speakers :
        /\ r_fed[s] \o r_q[s] = Delivered(r_cap[s])
        /\ r_fed[s] # <<>> => r_task[s]
        /\ (r_stream[s] = "active" /\ r_cap[s] < MaxCaptured)
              => ENABLED Callback(s)

\* C30 witness: blocks were delivered before the task of Person 1 was
\* started; two of them have been fed since and one is still queued.
C30_Witness ==
    /\ r_fed["Person 1"] = <<1, 2>>
    /\ r_q["Person 1"] = <<3>>
    /\ r_task["Person 1"]
    /\ ~r_task["Person 2"]
    /\ r_q["Person 2"] # <<>>

\* C31: once stop() has set a worker's stop event the worker ends at most
\* one more pass of its loop body, whatever its queue holds and whether or
\* not blocks keep arriving; its run() then stops and closes the capture
\* stream and returns, and main's join() of every worker returns.
C31_WorkerTerminates ==
    /\ [](\A s \in Speakers : r_after[s] <= 1)
    /\ \A s \in Speakers :
          r_stop[s] ~> (r_pc[s] = "done" /\ r_stream[s] = "closed")
    /\ (r_main = "stop") ~> (r_main = "joined")

\* C31 witness: the stop of Person 1 came during a pass of the loop body;
\* the worker ended that pass and closed its stream with blocks still
\* queued, every block of the run having arrived, and both joins have
\* returned.
C31_Witness ==
    /\ r_main = "joined"
    /\ r_after["Person 1"] = 1
    /\ r_q["Person 1"] # <<>>
    /\ r_cap["Person 1"] = MaxCaptured
    /\ \A s \in Speakers : r_pc[s] = "done" /\ r_stream[s] = "closed"

\* C32: a callback of the shared-log variant that carries an error, with
\* or without a result, or that carries no result, appends no entry,
\* leaves the transcript file and every flush as they are and does not
\* take the lock: it leaves no trace in the log's state.
C32_RejectedCallbackChangesNothing ==
    [][cb_bad' # cb_bad =>
          UNCHANGED <<conversation, conversation_lock, transcript, cbpc,
                      cbtxt, fpc, fbuf, cb_done>>]_vars

\* C32 witness: a callback with an error or without a result has come
\* while the other speaker's callback held the lock with its entry in the
\* log, or has come before it.
C32_Witness ==
    /\ cb_bad
    /\ conversation_lock = "Person 2"
    /\ cbpc["Person 1"] = "idle"
    /\ Len(conversation) = 1
    /\ transcript = <<>>

\* C33: in the per-speaker-file variants (live_transcribe_2.py and
\* dual_live_transcribe.py) a callback with a result leaves in its
\* speaker's file exactly the text of that result, with nothing left over
\* from a longer earlier text, and leaves the other speaker's file as it
\* was; a callback without a result leaves both files as they were.  Each
\* file therefore always holds its speaker's most recent result.
C33_FileHoldsLatestResult ==
    [][(h_prog \in {"lt2", "dual"} /\ h_last' # h_last) =>
          \A who \in {1, 2} :
             h_file'[who] =
                IF h_last'.who = who /\ h_last'.res # None
                THEN h_last'.res
                ELSE h_file[who]]_vars

\* C33 witness: in the dual program Person 1's result "abc" was written
\* to Person 1's file, and Person 1's shorter result "aa" that followed is
\* all that the file holds now.
C33_Witness ==
    /\ h_prog = "dual"
    /\ h_printed = <<<<"P", 1, "abc">>, <<"P", 1, "aa">>>>
    /\ h_file[1] = "aa"
    /\ h_last.res = "aa"

\* C34: once started and past the calibration countdown, the dual-speaker
\* program goes on capturing until it is interrupted from outside: its
\* main thread never runs off the end of the script, so that while no
\* sys.exit has been called the tap can still be called.
C34_RunsUntilInterrupted ==
    /\ d_main # "ended"
    /\ (d_tap /\ d_main # "exit") => TapAlive

Init == InitLog /\ InitLt /\ InitTap /\ InitLoc /\ InitH /\ InitRun
SpecLog == Init /\ [][NextLog]_vars
InitResults ==
    InitListening /\ InitLt /\ InitTap /\ InitLoc /\ InitH /\ InitRun
SpecResults == InitResults /\ [][NextResults]_vars /\ CallbackFairness
SpecFlush == InitFlush /\ [][NextFlush]_vars
SpecFeed == Init /\ [][NextLt]_vars
SpecTap == Init /\ [][NextTap]_vars
SpecWatch == InitWatch /\ [][NextWatch]_vars
SpecScenario == InitScenario /\ [][NextScenario]_vars
SpecLocate == InitLocate /\ [][NextLocate]_vars
SpecStartup == Init /\ [][NextStartup]_vars
SpecHandlers == InitHandlers /\ [][NextHandlers]_vars
SpecRun == Init /\ [][NextRun]_vars /\ RunFairness

====
